---------------------------- MODULE Spec2Model ----------------------------
(***************************************************************************)
(* A model of go-simpler/env: loading environment variables into a config  *)
(* struct.  The repository holds several generations of the package; the   *)
(* model keeps the three that the Load contract is written against:        *)
(*   "LoadFrom" : LoadFrom(Provider, dst, ...Option)   src/env.go 202-410   *)
(*   "loader"   : Load(cfg, ...Option) with a loader   src/unnamed/part_004 *)
(*   "Options"  : Load(cfg, *Options) with the cache   src/env.go 412-612   *)
(* A Go string is a sequence of one-character strings, so that splitting,  *)
(* parsing, formatting and expansion are computed character by character.  *)
(***************************************************************************)
EXTENDS Integers, Sequences, FiniteSets, TLC

VARIABLES
    variant,    \* the generation of the package that is called
    cfg,        \* the kind of the argument given to Load
    decl,       \* the struct type of the argument: its field declarations
    fields,     \* the current value of every leaf field, by field path
    precall,    \* the value of every leaf field when Load was called
    source,     \* the Source / Provider: a list of Maps, combined
    opts,       \* the options: prefix, sliceSep, nameSep
    pc,         \* the position of the call: "idle", "loop", "done"
    vars,       \* the list parseVars returned
    idx,        \* the position of the range loop over vars
    notset,     \* the names of the missing required variables so far
    result,     \* what Load returned, or the panic it raised
    lookups,    \* every key the source was asked for, in order
    sets,       \* every field path assigned through reflection, in order
    cache,      \* usage.go: the Var list kept for the struct type
    usageOutput, \* the loader has a writer from WithUsageOnError
    written,    \* the usage messages written to the writer, in order
    history,    \* the calls of Load that are over: fields before and after, result
    procs       \* the goroutines that call Load and Usage at the same time

vars_all == <<variant, cfg, decl, fields, precall, source, opts, pc, vars,
              idx, notset, result, lookups, sets, cache,
              usageOutput, written, history, procs>>

---------------------------------------------------------------------------
(* Strings.                                                                *)

Digits == <<"0", "1", "2", "3", "4", "5", "6", "7", "8", "9">>

IsDigit(c) == \E d \in DOMAIN Digits : Digits[d] = c

DigitVal(c) == (CHOOSE d \in DOMAIN Digits : Digits[d] = c) - 1

Letters ==
    {"a", "b", "c", "d", "e", "f", "g", "h", "i", "j", "k", "l", "m",
     "n", "o", "p", "q", "r", "s", "t", "u", "v", "w", "x", "y", "z",
     "A", "B", "C", "D", "E", "F", "G", "H", "I", "J", "K", "L", "M",
     "N", "O", "P", "Q", "R", "S", "T", "U", "V", "W", "X", "Y", "Z"}

HasPrefix(s, p) == Len(p) <= Len(s) /\ SubSeq(s, 1, Len(p)) = p

\* strings.Index from position i: the first k >= i where sep starts, else 0.
RECURSIVE IndexFrom(_, _, _)
IndexFrom(s, sep, i) ==
    IF i + Len(sep) - 1 > Len(s) THEN 0
    ELSE IF SubSeq(s, i, i + Len(sep) - 1) = sep THEN i
    ELSE IndexFrom(s, sep, i + 1)

\* strings.Split(s, sep): an empty sep explodes s into its characters.
RECURSIVE Split(_, _)
Split(s, sep) ==
    IF sep = <<>> THEN [k \in 1..Len(s) |-> <<s[k]>>]
    ELSE LET k == IndexFrom(s, sep, 1) IN
         IF k = 0 THEN <<s>>
         ELSE <<SubSeq(s, 1, k - 1)>> \o Split(SubSeq(s, k + Len(sep), Len(s)), sep)

RECURSIVE Join(_, _)
Join(ss, sep) ==
    IF ss = <<>> THEN <<>>
    ELSE IF Len(ss) = 1 THEN ss[1]
    ELSE ss[1] \o sep \o Join(Tail(ss), sep)

Contains(ss, x) == \E k \in DOMAIN ss : ss[k] = x

\* The value of a non-empty string of decimal digits.
RECURSIVE DigitsVal(_)
DigitsVal(s) ==
    IF s = <<>> THEN 0
    ELSE 10 * DigitsVal(SubSeq(s, 1, Len(s) - 1)) + DigitVal(s[Len(s)])

AllDigits(s) == s # <<>> /\ \A k \in DOMAIN s : IsDigit(s[k])

\* strconv.FormatInt(n, 10) / FormatUint.
RECURSIVE FormatNat(_)
FormatNat(n) ==
    IF n < 10 THEN <<Digits[n + 1]>>
    ELSE FormatNat(n \div 10) \o <<Digits[(n % 10) + 1]>>

FormatInt(n) == IF n < 0 THEN <<"-">> \o FormatNat(-n) ELSE FormatNat(n)

---------------------------------------------------------------------------
(* Types, as reflect sees them.                                            *)

ScalarTypes ==
    {"int8", "int16", "uint8", "uint16", "float64", "bool", "string",
     "time.Duration", "net.IP", "slog.Level", "time.Time", "complex64"}

SliceTypes == {"[]int8", "[]string", "[]net.IP", "[]time.Duration", "[]complex64"}

\* reflect.Value.Kind.  net.IP is a named []byte, time.Duration a named
\* int64, slog.Level a named int and time.Time a struct.
Kind(t) ==
    CASE t = "int8" -> "Int8"
      [] t = "int16" -> "Int16"
      [] t = "uint8" -> "Uint8"
      [] t = "uint16" -> "Uint16"
      [] t = "float64" -> "Float64"
      [] t = "time.Duration" -> "Int64"
      [] t = "slog.Level" -> "Int"
      [] t = "time.Time" -> "Struct"
      [] t = "bool" -> "Bool"
      [] t = "string" -> "String"
      [] t = "complex64" -> "Complex64"
      [] t = "struct" -> "Struct"
      [] OTHER -> "Slice"

\* reflect.Type.Bits of the numeric kinds; an int has 64 bits.
Bits(t) ==
    CASE Kind(t) \in {"Int8", "Uint8"} -> 8
      [] Kind(t) \in {"Int16", "Uint16"} -> 16
      [] OTHER -> 64

\* reflect.Type.Elem of a slice type.
Elem(t) ==
    CASE t = "[]int8" -> "int8"
      [] t = "[]string" -> "string"
      [] t = "[]net.IP" -> "net.IP"
      [] t = "[]time.Duration" -> "time.Duration"
      [] t = "[]complex64" -> "complex64"
      [] OTHER -> "uint8"

typeOf(t, types) == t \in types

kindOf(t, kinds) == Kind(t) \in kinds

durationType == "time.Duration"

\* A faulty test that finds an UnmarshalText method on no type.
implementsNone(t) == FALSE

\* The types with an UnmarshalText method, on the type or on its pointer.
unmarshalerIface == {"net.IP", "slog.Level", "time.Time"}

implements(t) == t \in unmarshalerIface

\* The zero value of a type.
Zero(t) ==
    CASE t \in {"int8", "int16", "uint8", "uint16", "complex64",
                "time.Duration", "slog.Level"} -> 0
      [] t = "bool" -> FALSE
      [] t = "float64" -> [neg |-> FALSE, int |-> <<"0">>, frac |-> <<>>]
      [] t = "time.Time" -> <<1, 1, 1, 0, 0, 0>>
      [] OTHER -> <<>>

---------------------------------------------------------------------------
(* Coercion: a result is the value to store, or the error returned.        *)

Ok(v) == [ok |-> TRUE, val |-> v, err |-> "", type |-> ""]

Fail(e, t) == [ok |-> FALSE, val |-> 0, err |-> e, type |-> t]

\* A digit string without its leading zeros.
RECURSIVE StripZeros(_)
StripZeros(s) == IF Len(s) > 1 /\ s[1] = "0" THEN StripZeros(Tail(s)) ELSE s

\* a <= b for two digit strings without leading zeros.
DecLeq(a, b) ==
    \/ Len(a) < Len(b)
    \/ /\ Len(a) = Len(b)
       /\ \/ a = b
          \/ \E k \in DOMAIN a : /\ DigitVal(a[k]) < DigitVal(b[k])
                                 /\ \A j \in 1..(k - 1) : a[j] = b[j]

\* 2^bits - 1, 2^(bits-1) - 1 and 2^(bits-1), in decimal.
MaxUint(bits) ==
    CASE bits = 8 -> <<"2", "5", "5">>
      [] bits = 16 -> <<"6", "5", "5", "3", "5">>
      [] OTHER -> <<"1", "8", "4", "4", "6", "7", "4", "4", "0", "7",
                 "3", "7", "0", "9", "5", "5", "1", "6", "1", "5">>

MaxInt(bits) ==
    CASE bits = 8 -> <<"1", "2", "7">>
      [] bits = 16 -> <<"3", "2", "7", "6", "7">>
      [] OTHER -> <<"9", "2", "2", "3", "3", "7", "2", "0", "3", "6",
                 "8", "5", "4", "7", "7", "5", "8", "0", "7">>

MinIntAbs(bits) ==
    CASE bits = 8 -> <<"1", "2", "8">>
      [] bits = 16 -> <<"3", "2", "7", "6", "8">>
      [] OTHER -> <<"9", "2", "2", "3", "3", "7", "2", "0", "3", "6",
                 "8", "5", "4", "7", "7", "5", "8", "0", "8">>

\* strconv.ParseUint(s, 10, bits): no sign, digits only, at most 2^bits - 1.
ParseUint(s, bits) ==
    IF ~AllDigits(s) THEN Fail("parsing uint", "syntax")
    ELSE IF ~DecLeq(StripZeros(s), MaxUint(bits)) THEN Fail("parsing uint", "range")
    ELSE Ok(DigitsVal(s))

\* strconv.ParseInt(s, 10, bits): an optional sign, then digits; the value
\* must lie in -2^(bits-1) .. 2^(bits-1) - 1.
ParseInt(s, bits) ==
    LET neg == s # <<>> /\ s[1] = "-"
        signed == s # <<>> /\ s[1] \in {"-", "+"}
        body == IF signed THEN Tail(s) ELSE s
    IN  IF ~AllDigits(body) THEN Fail("parsing int", "syntax")
        ELSE IF ~neg /\ ~DecLeq(StripZeros(body), MaxInt(bits))
        THEN Fail("parsing int", "range")
        ELSE IF neg /\ ~DecLeq(StripZeros(body), MinIntAbs(bits))
        THEN Fail("parsing int", "range")
        ELSE Ok(IF neg THEN -DigitsVal(body) ELSE DigitsVal(body))

\* The longest prefix of digits.
RECURSIVE DigitRun(_)
DigitRun(s) ==
    IF s # <<>> /\ IsDigit(s[1]) THEN <<s[1]>> \o DigitRun(Tail(s)) ELSE <<>>

Drop(s, n) == SubSeq(s, n + 1, Len(s))

RECURSIVE StripTrailingZeros(_)
StripTrailingZeros(s) ==
    IF s # <<>> /\ s[Len(s)] = "0" THEN StripTrailingZeros(SubSeq(s, 1, Len(s) - 1))
    ELSE s

\* strconv.ParseFloat for the decimal form: a sign, digits, a point, digits,
\* with a digit on one side at least.  The value is kept as its sign, its
\* integer digits and its fraction digits.
ParseFloat(s) ==
    LET neg == s # <<>> /\ s[1] = "-"
        signed == s # <<>> /\ s[1] \in {"-", "+"}
        body == IF signed THEN Tail(s) ELSE s
        int == DigitRun(body)
        afterInt == Drop(body, Len(int))
        point == afterInt # <<>> /\ afterInt[1] = "."
        frac == IF point THEN DigitRun(Tail(afterInt)) ELSE <<>>
        rest == IF point THEN Drop(afterInt, 1 + Len(frac)) ELSE afterInt
    IN  IF rest # <<>> \/ (int = <<>> /\ frac = <<>>)
        THEN Fail("parsing float", "syntax")
        ELSE Ok([neg |-> neg,
                 int |-> StripZeros(IF int = <<>> THEN <<"0">> ELSE int),
                 frac |-> StripTrailingZeros(frac)])

\* The longest prefix that holds neither a digit nor a point: a unit.
RECURSIVE UnitRun(_)
UnitRun(s) ==
    IF s # <<>> /\ ~IsDigit(s[1]) /\ s[1] # "." THEN <<s[1]>> \o UnitRun(Tail(s))
    ELSE <<>>

\* The units of time.ParseDuration (unitMap), in nanoseconds.
Units == {<<"n", "s">>, <<"u", "s">>, <<"µ", "s">>, <<"m", "s">>, <<"s">>, <<"m">>, <<"h">>}

unitMap(u) ==
    CASE u = <<"n", "s">> -> 1
      [] u \in {<<"u", "s">>, <<"µ", "s">>} -> 1000
      [] u = <<"m", "s">> -> 1000000
      [] u = <<"s">> -> 1000000000
      [] u = <<"m">> -> 60 * 1000000000
      [] OTHER -> 3600 * 1000000000

RECURSIVE Pow10(_)
Pow10(n) == IF n = 0 THEN 1 ELSE 10 * Pow10(n - 1)

\* The loop of time.ParseDuration over the groups number-unit of s.
RECURSIVE ParseDurationGroups(_)
ParseDurationGroups(s) ==
    IF s = <<>> THEN Ok(0)
    ELSE
    LET int == DigitRun(s)
        afterInt == Drop(s, Len(int))
        point == afterInt # <<>> /\ afterInt[1] = "."
        frac == IF point THEN DigitRun(Tail(afterInt)) ELSE <<>>
        afterNum == IF point THEN Drop(afterInt, 1 + Len(frac)) ELSE afterInt
        unit == UnitRun(afterNum)
        rest == Drop(afterNum, Len(unit))
        more == ParseDurationGroups(rest)
    IN  IF int = <<>> /\ frac = <<>> THEN Fail("parsing duration", "invalid duration")
        ELSE IF unit = <<>> THEN Fail("parsing duration", "missing unit")
        ELSE IF unit \notin Units THEN Fail("parsing duration", "unknown unit")
        ELSE IF ~more.ok THEN more
        ELSE Ok((IF int = <<>> THEN 0 ELSE DigitsVal(int)) * unitMap(unit)
                + (IF frac = <<>> THEN 0
                   ELSE IF unitMap(unit) % Pow10(Len(frac)) = 0
                   THEN DigitsVal(frac) * (unitMap(unit) \div Pow10(Len(frac)))
                   ELSE (DigitsVal(frac) * unitMap(unit)) \div Pow10(Len(frac)))
                + more.val)

\* time.ParseDuration: a sign, then "0" or groups of a number and a unit.
ParseDuration(s) ==
    LET neg == s # <<>> /\ s[1] = "-"
        signed == s # <<>> /\ s[1] \in {"-", "+"}
        body == IF signed THEN Tail(s) ELSE s
        d == ParseDurationGroups(body)
    IN  IF body = <<"0">> THEN Ok(0)
        ELSE IF body = <<>> THEN Fail("parsing duration", "invalid duration")
        ELSE IF ~d.ok THEN d
        ELSE Ok(IF neg THEN -d.val ELSE d.val)

TrueStrings ==
    {<<"1">>, <<"t">>, <<"T">>, <<"T", "R", "U", "E">>,
     <<"t", "r", "u", "e">>, <<"T", "r", "u", "e">>}

FalseStrings ==
    {<<"0">>, <<"f">>, <<"F">>, <<"F", "A", "L", "S", "E">>,
     <<"f", "a", "l", "s", "e">>, <<"F", "a", "l", "s", "e">>}

\* strconv.ParseBool.
ParseBool(s) ==
    IF s \in TrueStrings THEN Ok(TRUE)
    ELSE IF s \in FalseStrings THEN Ok(FALSE)
    ELSE Fail("parsing bool", "syntax")

\* One decimal field of a dotted IPv4 address: 0..255, no leading zero.
IPField(s) ==
    /\ AllDigits(s)
    /\ Len(s) <= 3
    /\ (Len(s) > 1 => s[1] # "0")
    /\ DigitsVal(s) <= 255

\* net.IP.UnmarshalText: an empty text is the nil IP, otherwise net.ParseIP.
\* The strings of the model hold no colon, so only the IPv4 form can parse.
UnmarshalText(s) ==
    LET parts == Split(s, <<".">>) IN
    IF s = <<>> THEN Ok(<<>>)
    ELSE IF Len(parts) = 4 /\ \A k \in 1..4 : IPField(parts[k])
    THEN Ok([k \in 1..4 |-> DigitsVal(parts[k])])
    ELSE Fail("unmarshaling text", "ParseError")

Lower == <<"a", "b", "c", "d", "e", "f", "g", "h", "i", "j", "k", "l", "m",
           "n", "o", "p", "q", "r", "s", "t", "u", "v", "w", "x", "y", "z">>

Upper == <<"A", "B", "C", "D", "E", "F", "G", "H", "I", "J", "K", "L", "M",
           "N", "O", "P", "Q", "R", "S", "T", "U", "V", "W", "X", "Y", "Z">>

\* strings.ToUpper.
ToUpper(s) ==
    [k \in DOMAIN s |->
        IF \E i \in DOMAIN Lower : Lower[i] = s[k]
        THEN Upper[CHOOSE i \in DOMAIN Lower : Lower[i] = s[k]]
        ELSE s[k]]

\* The index of the first + or - of s, 0 when there is none.
IndexSign(s) ==
    LET at == {k \in DOMAIN s : s[k] \in {"+", "-"}} IN
    IF at = {} THEN 0 ELSE CHOOSE k \in at : \A j \in at : k <= j

\* slog.Level.UnmarshalText: a level name in any case, then an optional
\* signed offset.
Level_UnmarshalText(s) ==
    LET i == IndexSign(s)
        name == ToUpper(IF i = 0 THEN s ELSE SubSeq(s, 1, i - 1))
        offset == IF i = 0 THEN Ok(0) ELSE ParseInt(Drop(s, i - 1), 64)
        known == name \in {<<"D", "E", "B", "U", "G">>, <<"I", "N", "F", "O">>,
                           <<"W", "A", "R", "N">>, <<"E", "R", "R", "O", "R">>}
        base == CASE name = <<"D", "E", "B", "U", "G">> -> -4
                  [] name = <<"I", "N", "F", "O">> -> 0
                  [] name = <<"W", "A", "R", "N">> -> 4
                  [] OTHER -> 8
    IN  IF ~known THEN Fail("unmarshaling text", "unknown name")
        ELSE IF ~offset.ok THEN Fail("unmarshaling text", "bad offset")
        ELSE Ok(base + offset.val)

DaysIn(y, m) ==
    IF m = 2 THEN (IF y % 4 = 0 /\ (y % 100 # 0 \/ y % 400 = 0) THEN 29 ELSE 28)
    ELSE IF m \in {4, 6, 9, 11} THEN 30 ELSE 31

\* time.Time.UnmarshalText: RFC 3339.  The texts of the model are in the
\* form YYYY-MM-DDTHH:MM:SSZ, without fraction and in UTC.
Time_UnmarshalText(s) ==
    LET num(i, j) == DigitsVal(SubSeq(s, i, j))
        shape == /\ Len(s) = 20
                 /\ \A k \in {1, 2, 3, 4, 6, 7, 9, 10, 12, 13, 15, 16, 18, 19} : IsDigit(s[k])
                 /\ s[5] = "-" /\ s[8] = "-" /\ s[11] = "T"
                 /\ s[14] = ":" /\ s[17] = ":" /\ s[20] = "Z"
    IN  IF ~shape THEN Fail("unmarshaling text", "ParseError")
        ELSE IF \/ num(6, 7) \notin 1..12
                \/ num(9, 10) \notin 1..DaysIn(num(1, 4), num(6, 7))
                \/ num(12, 13) > 23 \/ num(15, 16) > 59 \/ num(18, 19) > 59
        THEN Fail("unmarshaling text", "ParseError")
        ELSE Ok(<<num(1, 4), num(6, 7), num(9, 10), num(12, 13), num(15, 16), num(18, 19)>>)

\* A faulty setInt that parses for 64 bits whatever the width of the field.
setIntWide(t, s) == ParseInt(s, 64)

setInt(t, s) == ParseInt(s, Bits(t))

setUint(t, s) == ParseUint(s, Bits(t))

setFloat(t, s) == ParseFloat(s)

setBool(t, s) == ParseBool(s)

setString(t, s) == Ok(s)

setDuration(t, s) == ParseDuration(s)

\* setUnmarshaler: the UnmarshalText of the type of the field.
setUnmarshaler(t, s) ==
    CASE t = "slog.Level" -> Level_UnmarshalText(s)
      [] t = "time.Time" -> Time_UnmarshalText(s)
      [] OTHER -> UnmarshalText(s)

\* A faulty setValue that tries the rules of the kinds before the rules of
\* time.Duration and of the TextUnmarshaler.
setValueKindFirst(t, s) ==
    IF kindOf(t, {"Int", "Int8", "Int16", "Int32", "Int64"}) THEN setInt(t, s)
    ELSE IF kindOf(t, {"Uint", "Uint8", "Uint16", "Uint32", "Uint64"}) THEN setUint(t, s)
    ELSE IF kindOf(t, {"Float32", "Float64"}) THEN setFloat(t, s)
    ELSE IF kindOf(t, {"Bool"}) THEN setBool(t, s)
    ELSE IF kindOf(t, {"String"}) THEN setString(t, s)
    ELSE IF typeOf(t, {durationType}) THEN setDuration(t, s)
    ELSE IF implements(t) THEN setUnmarshaler(t, s)
    ELSE Fail("unsupported type", t)

\* setValue: the first matching rule decides; no rule is an unsupported type.
setValue(t, s) ==
    IF typeOf(t, {durationType}) THEN setDuration(t, s)
    ELSE IF implements(t) THEN setUnmarshaler(t, s)
    ELSE IF kindOf(t, {"Int", "Int8", "Int16", "Int32", "Int64"}) THEN setInt(t, s)
    ELSE IF kindOf(t, {"Uint", "Uint8", "Uint16", "Uint32", "Uint64"}) THEN setUint(t, s)
    ELSE IF kindOf(t, {"Float32", "Float64"}) THEN setFloat(t, s)
    ELSE IF kindOf(t, {"Bool"}) THEN setBool(t, s)
    ELSE IF kindOf(t, {"String"}) THEN setString(t, s)
    ELSE Fail("unsupported type", t)

\* A faulty setSlice that sets the field to the elements parsed before the
\* first piece that fails.
setSlicePartial(t, ss) ==
    LET rs == [k \in DOMAIN ss |-> setValue(Elem(t), ss[k])]
        bad == {k \in DOMAIN ss : ~rs[k].ok}
        first == IF bad = {} THEN Len(ss) + 1 ELSE CHOOSE k \in bad : \A j \in bad : k <= j
    IN  Ok([k \in 1..(first - 1) |-> rs[k].val])

\* setSlice: a new slice of len(s) elements, each set by setValue; the first
\* failing element returns its error and the field is not set.
setSlice(t, ss) ==
    LET rs == [k \in DOMAIN ss |-> setValue(Elem(t), ss[k])]
        bad == {k \in DOMAIN ss : ~rs[k].ok}
    IN  IF bad = {} THEN Ok([k \in DOMAIN ss |-> rs[k].val])
        ELSE rs[CHOOSE k \in bad : \A j \in bad : k <= j]

---------------------------------------------------------------------------
(* fmt.Sprintf("%v", field.Interface()): the default of a leaf that has no *)
(* `default` tag is its current value, printed.                            *)

\* net.IP.String: "<nil>" for an IP of length 0, else the dotted form.
IPString(ip) ==
    IF ip = <<>> THEN <<"<", "n", "i", "l", ">">>
    ELSE Join([k \in 1..4 |-> FormatInt(ip[k])], <<".">>)

\* A number in decimal, padded with zeros on the left to n digits.
Pad(v, n) ==
    LET d == FormatNat(v) IN
    [k \in 1..(n - Len(d)) |-> "0"] \o d

\* time.Duration.String for less than a minute: the largest unit that keeps
\* the integer part positive, the fraction without trailing zeros.
Duration_String(d) ==
    LET u == IF d < 0 THEN -d ELSE d
        frac(digits, unit) ==
            LET f == StripTrailingZeros(Pad(u % unit, digits)) IN
            FormatNat(u \div unit) \o (IF f = <<>> THEN <<>> ELSE <<".">> \o f)
        body == IF u = 0 THEN <<"0", "s">>
                ELSE IF u < 1000 THEN FormatNat(u) \o <<"n", "s">>
                ELSE IF u < 1000000 THEN frac(3, 1000) \o <<"µ", "s">>
                ELSE IF u < 1000000000 THEN frac(6, 1000000) \o <<"m", "s">>
                ELSE frac(9, 1000000000) \o <<"s">>
    IN  (IF d < 0 THEN <<"-">> ELSE <<>>) \o body

\* slog.Level.String: the nearest name below, then the signed offset.
Level_String(l) ==
    LET str(name, off) ==
            IF off = 0 THEN name
            ELSE name \o (IF off > 0 THEN <<"+">> ELSE <<>>) \o FormatInt(off)
    IN  IF l < 0 THEN str(<<"D", "E", "B", "U", "G">>, l + 4)
        ELSE IF l < 4 THEN str(<<"I", "N", "F", "O">>, l)
        ELSE IF l < 8 THEN str(<<"W", "A", "R", "N">>, l - 4)
        ELSE str(<<"E", "R", "R", "O", "R">>, l - 8)

\* time.Time.String of a time in UTC without fraction.
Time_String(t) ==
    Pad(t[1], 4) \o <<"-">> \o Pad(t[2], 2) \o <<"-">> \o Pad(t[3], 2) \o <<" ">>
    \o Pad(t[4], 2) \o <<":">> \o Pad(t[5], 2) \o <<":">> \o Pad(t[6], 2)
    \o <<" ", "+", "0", "0", "0", "0", " ", "U", "T", "C">>

\* The %v of a float64 of a few digits: no exponent.
Float_String(f) ==
    (IF f.neg THEN <<"-">> ELSE <<>>) \o f.int
    \o (IF f.frac = <<>> THEN <<>> ELSE <<".">> \o f.frac)

SprintScalar(t, v) ==
    CASE t \in {"int8", "int16", "uint8", "uint16"} -> FormatInt(v)
      [] t = "float64" -> Float_String(v)
      [] t = "bool" -> IF v THEN <<"t", "r", "u", "e">> ELSE <<"f", "a", "l", "s", "e">>
      [] t = "string" -> v
      [] t = "time.Duration" -> Duration_String(v)
      [] t = "net.IP" -> IPString(v)
      [] t = "slog.Level" -> Level_String(v)
      [] t = "time.Time" -> Time_String(v)
      [] OTHER -> <<"(", "0", "+", "0", "i", ")">>

\* A faulty formatting that prints a duration as its count of nanoseconds.
SprintfNanoseconds(t, v) ==
    IF t \in SliceTypes
    THEN <<"[">> \o Join([k \in DOMAIN v |-> SprintScalar(Elem(t), v[k])], <<" ">>) \o <<"]">>
    ELSE IF t = "time.Duration" THEN FormatInt(v)
    ELSE SprintScalar(t, v)

\* A slice prints as its elements between brackets, separated by spaces.
Sprintf(t, v) ==
    IF t \in SliceTypes
    THEN <<"[">> \o Join([k \in DOMAIN v |-> SprintScalar(Elem(t), v[k])], <<" ">>) \o <<"]">>
    ELSE SprintScalar(t, v)

---------------------------------------------------------------------------
(* Sources.                                                                *)

Found(v) == [ok |-> TRUE, value |-> v]

NotFound == [ok |-> FALSE, value |-> <<>>]

\* A faulty lookup that takes a variable set to the empty string as absent.
Map_LookupEnvNonEmpty(m, key) ==
    IF key \in DOMAIN m /\ m[key] # <<>> THEN Found(m[key]) ELSE NotFound

\* Map.LookupEnv.
Map_LookupEnv(m, key) == IF key \in DOMAIN m THEN Found(m[key]) ELSE NotFound

\* sources.LookupEnv (MultiSource) and providers.LookupEnv (MultiProvider):
\* every source is asked, and the last one that has the key decides.
RECURSIVE sources_LookupEnv(_, _)
sources_LookupEnv(ss, key) ==
    IF ss = <<>> THEN NotFound
    ELSE LET last == Map_LookupEnv(ss[Len(ss)], key) IN
         IF last.ok THEN last
         ELSE sources_LookupEnv(SubSeq(ss, 1, Len(ss) - 1), key)

\* multiSource.LookupEnv: the first source that has the key decides.
RECURSIVE multiSource_LookupEnv(_, _)
multiSource_LookupEnv(ms, key) ==
    IF ms = <<>> THEN NotFound
    ELSE LET first == Map_LookupEnv(ms[1], key) IN
         IF first.ok THEN first ELSE multiSource_LookupEnv(Tail(ms), key)

Reverse(ss) == [k \in DOMAIN ss |-> ss[Len(ss) + 1 - k]]

\* WithSource(src, srcs...): srcs reversed, then src appended.
WithSource(ss) == Reverse(Tail(ss)) \o <<ss[1]>>

\* A faulty composite in which the first source that has the key decides.
LookupEnvFirst(v, ss, key) == multiSource_LookupEnv(ss, key)

\* The LookupEnv of the source a generation loads from.
LookupEnv(v, ss, key) ==
    IF v = "loader" THEN multiSource_LookupEnv(WithSource(ss), key)
    ELSE sources_LookupEnv(ss, key)

---------------------------------------------------------------------------
(* os.Expand, as lookupEnv calls it.                                       *)

isShellSpecialVar(c) ==
    c \in {"*", "#", "$", "@", "!", "?", "-"} \/ IsDigit(c)

isAlphaNum(c) == c = "_" \/ IsDigit(c) \/ c \in Letters

\* The length of the longest prefix of s made of alphanumerics.
RECURSIVE AlphaNumRun(_)
AlphaNumRun(s) ==
    IF s = <<>> \/ ~isAlphaNum(s[1]) THEN 0 ELSE 1 + AlphaNumRun(Tail(s))

\* getShellName: the name that starts s (the text after a dollar) and the
\* number of characters it takes.  s is not empty.
getShellName(s) ==
    LET closing == {k \in 2..Len(s) : s[k] = "}"}
        close == CHOOSE k \in closing : \A j \in closing : k <= j
    IN  IF s[1] = "{"
        THEN IF Len(s) > 2 /\ isShellSpecialVar(s[2]) /\ s[3] = "}"
             THEN [name |-> <<s[2]>>, w |-> 3]
             ELSE IF closing = {} THEN [name |-> <<>>, w |-> 1]
             ELSE IF close = 2 THEN [name |-> <<>>, w |-> 2]
             ELSE [name |-> SubSeq(s, 2, close - 1), w |-> close]
        ELSE IF isShellSpecialVar(s[1]) THEN [name |-> <<s[1]>>, w |-> 1]
        ELSE [name |-> SubSeq(s, 1, AlphaNumRun(s)), w |-> AlphaNumRun(s)]

\* os.Expand(s, mapping) from position j, where mapping(name) is the value
\* of name in the source, or "" when the source does not have it.
RECURSIVE Expand(_, _, _, _)
Expand(s, j, v, ss) ==
    IF j > Len(s) THEN <<>>
    ELSE IF s[j] = "$" /\ j < Len(s)
    THEN LET r == getShellName(SubSeq(s, j + 1, Len(s)))
             out == IF r.name = <<>> /\ r.w > 0 THEN <<>>
                    ELSE IF r.name = <<>> THEN <<"$">>
                    ELSE LookupEnv(v, ss, r.name).value
         IN  out \o Expand(s, j + r.w + 1, v, ss)
    ELSE <<s[j]>> \o Expand(s, j + 1, v, ss)

\* The names mapping is called with while s is expanded, in order.
RECURSIVE ExpandNames(_, _)
ExpandNames(s, j) ==
    IF j > Len(s) THEN <<>>
    ELSE IF s[j] = "$" /\ j < Len(s)
    THEN LET r == getShellName(SubSeq(s, j + 1, Len(s))) IN
         (IF r.name = <<>> THEN <<>> ELSE <<r.name>>) \o ExpandNames(s, j + r.w + 1)
    ELSE ExpandNames(s, j + 1)

\* lookupEnv(src, key, expand): the value of key, expanded when asked.
\* A faulty lookup that returns the found string as it is.
lookupEnvRaw(v, ss, key, expand) == LookupEnv(v, ss, key)

lookupEnv(v, ss, key, expand) ==
    LET r == LookupEnv(v, ss, key) IN
    IF ~r.ok THEN NotFound
    ELSE IF ~expand THEN r
    ELSE Found(Expand(r.value, 1, v, ss))

\* The keys lookupEnv asks the source for.
lookupEnvKeys(v, ss, key, expand) ==
    LET r == LookupEnv(v, ss, key) IN
    IF r.ok /\ expand THEN <<key>> \o ExpandNames(r.value, 1) ELSE <<key>>

---------------------------------------------------------------------------
(* Struct types.  A field declaration is                                   *)
(*   [exported, type, hasEnv, env, hasDefault, default, fields]            *)
(* where env and default are the values of the struct tags and fields are  *)
(* the declarations of a nested struct.  A leaf is named by its path, the  *)
(* field indexes from the top of the struct.                               *)

REQUIRED == <<"r", "e", "q", "u", "i", "r", "e", "d">>

EXPAND == <<"e", "x", "p", "a", "n", "d">>

RECURSIVE LeafPaths(_, _)
LeafPaths(fs, path) ==
    UNION {IF fs[k].type = "struct"
           THEN LeafPaths(fs[k].fields, Append(path, k))
           ELSE {Append(path, k)} : k \in DOMAIN fs}

\* The declaration of the field at a path.
RECURSIVE FieldAt(_, _)
FieldAt(fs, path) ==
    IF Len(path) = 1 THEN fs[path[1]]
    ELSE FieldAt(fs[path[1]].fields, Tail(path))

NoPanic == [msg |-> "", token |-> <<>>]

Panic(m, tok) == [msg |-> m, token |-> tok]

NoVars == [panic |-> NoPanic, vars |-> <<>>]

\* A Var (usage.go) / variable (LoadFrom generation).
Var(name, t, def, required, expand, defSet, path) ==
    [Name |-> name, Type |-> t, Default |-> def, Required |-> required,
     Expand |-> expand, hasDefaultTag |-> defSet, structField |-> path]

\* The first option of a tag that is neither `required` nor `expand`.
FirstInvalid(options) ==
    LET bad == {k \in DOMAIN options : options[k] \notin {REQUIRED, EXPAND}} IN
    options[CHOOSE k \in bad : \A j \in bad : k <= j]

\* A faulty check that lets every option through.
AllValidLax(options) == TRUE

AllValid(options) == \A k \in DOMAIN options : options[k] \in {REQUIRED, EXPAND}

\* parseVars of the Options generation, from field k of the struct at path.
\* fv gives the current value of every leaf; a panic ends the walk.
RECURSIVE parseVars(_, _, _, _, _)
parseVars(fs, path, k, fv, o) ==
    IF k > Len(fs) THEN NoVars
    ELSE
    LET f == fs[k]
        p == Append(path, k)
        nested == parseVars(f.fields, p, 1, fv, o)
        prefix == IF f.hasEnv THEN f.env \o o.nameSep ELSE <<>>
        parts == Split(f.env, <<",">>)
        name == parts[1]
        options == Tail(parts)
        required == Contains(options, REQUIRED)
        expand == Contains(options, EXPAND)
        defValue == IF f.hasDefault THEN f.default
                    ELSE IF ~required THEN Sprintf(f.type, fv[p])
                    ELSE <<>>
        here ==
            IF ~f.exported THEN NoVars
            ELSE IF kindOf(f.type, {"Struct"}) /\ ~implements(f.type)
            THEN [panic |-> nested.panic,
                  vars |-> [j \in DOMAIN nested.vars |->
                              [nested.vars[j] EXCEPT !.Name = prefix \o @]]]
            ELSE IF ~f.hasEnv THEN NoVars
            ELSE IF name = <<>>
            THEN [panic |-> Panic("env: empty tag name is not allowed", <<>>),
                  vars |-> <<>>]
            ELSE IF ~AllValid(options)
            THEN [panic |-> Panic("env: invalid tag option", FirstInvalid(options)),
                  vars |-> <<>>]
            ELSE IF f.hasDefault /\ required
            THEN [panic |-> Panic("env: `required` and `default` can't be used simultaneously", <<>>),
                  vars |-> <<>>]
            ELSE [panic |-> NoPanic,
                  vars |-> <<Var(name, f.type, defValue, required, expand,
                                 f.hasDefault, p)>>]
        rest == parseVars(fs, path, k + 1, fv, o)
    IN  IF here.panic # NoPanic THEN here
        ELSE [panic |-> rest.panic, vars |-> here.vars \o rest.vars]

\* parseVars of the NameSep generation: the names under a nested struct get
\* the value of its tag, when it has one, and then the separator.
RECURSIVE nameSep_parseVars(_, _, _, _, _)
nameSep_parseVars(fs, path, k, fv, o) ==
    IF k > Len(fs) THEN NoVars
    ELSE
    LET f == fs[k]
        p == Append(path, k)
        nested == nameSep_parseVars(f.fields, p, 1, fv, o)
        prefix == IF f.hasEnv THEN f.env ELSE <<>>
        parts == Split(f.env, <<",">>)
        name == parts[1]
        options == Tail(parts)
        required == Contains(options, REQUIRED)
        expand == Contains(options, EXPAND)
        defValue == IF f.hasDefault THEN f.default
                    ELSE IF ~required THEN Sprintf(f.type, fv[p])
                    ELSE <<>>
        here ==
            IF ~f.exported THEN NoVars
            ELSE IF kindOf(f.type, {"Struct"}) /\ ~implements(f.type)
            THEN [panic |-> nested.panic,
                  vars |-> [j \in DOMAIN nested.vars |->
                              [nested.vars[j] EXCEPT !.Name = prefix \o o.nameSep \o @]]]
            ELSE IF ~f.hasEnv THEN NoVars
            ELSE IF name = <<>>
            THEN [panic |-> Panic("env: empty tag name is not allowed", <<>>),
                  vars |-> <<>>]
            ELSE IF ~AllValid(options)
            THEN [panic |-> Panic("env: invalid tag option", FirstInvalid(options)),
                  vars |-> <<>>]
            ELSE IF f.hasDefault /\ required
            THEN [panic |-> Panic("env: `required` and `default` can't be used simultaneously", <<>>),
                  vars |-> <<>>]
            ELSE [panic |-> NoPanic,
                  vars |-> <<Var(name, f.type, defValue, required, expand,
                                 f.hasDefault, p)>>]
        rest == nameSep_parseVars(fs, path, k + 1, fv, o)
    IN  IF here.panic # NoPanic THEN here
        ELSE [panic |-> rest.panic, vars |-> here.vars \o rest.vars]

\* loader.parseVars of the loader generation: the names get the loader's
\* prefix, a nested struct adds nothing, and `required` empties the default.
RECURSIVE loader_parseVars(_, _, _, _, _)
loader_parseVars(fs, path, k, fv, o) ==
    IF k > Len(fs) THEN NoVars
    ELSE
    LET f == fs[k]
        p == Append(path, k)
        nested == loader_parseVars(f.fields, p, 1, fv, o)
        parts == Split(f.env, <<",">>)
        name == parts[1]
        options == Tail(parts)
        required == Contains(options, REQUIRED)
        expand == Contains(options, EXPAND)
        defValue == IF required THEN <<>>
                    ELSE IF f.hasDefault THEN f.default
                    ELSE Sprintf(f.type, fv[p])
        here ==
            IF ~f.exported THEN NoVars
            ELSE IF kindOf(f.type, {"Struct"}) /\ ~implements(f.type) THEN nested
            ELSE IF ~f.hasEnv THEN NoVars
            ELSE IF name = <<>>
            THEN [panic |-> Panic("env: empty tag name is not allowed", <<>>),
                  vars |-> <<>>]
            ELSE IF ~AllValid(options)
            THEN [panic |-> Panic("env: invalid tag option", FirstInvalid(options)),
                  vars |-> <<>>]
            ELSE [panic |-> NoPanic,
                  vars |-> <<Var(o.prefix \o name, f.type, defValue, required,
                                 expand, f.hasDefault, p)>>]
        rest == loader_parseVars(fs, path, k + 1, fv, o)
    IN  IF here.panic # NoPanic THEN here
        ELSE [panic |-> rest.panic, vars |-> here.vars \o rest.vars]

\* loader.parseVars of the LoadFrom generation: a field with an empty name is
\* skipped, and only a second tag part equal to `required` is read.
RECURSIVE provider_parseVars(_, _, _, _, _)
provider_parseVars(fs, path, k, fv, o) ==
    IF k > Len(fs) THEN NoVars
    ELSE
    LET f == fs[k]
        p == Append(path, k)
        nested == provider_parseVars(f.fields, p, 1, fv, o)
        parts == Split(f.env, <<",">>)
        name == parts[1]
        required == Len(parts) > 1 /\ parts[2] = REQUIRED
        here ==
            IF ~f.exported THEN NoVars
            ELSE IF kindOf(f.type, {"Struct"}) /\ ~implements(f.type) THEN nested
            ELSE IF ~f.hasEnv THEN NoVars
            ELSE IF name = <<>> THEN NoVars
            ELSE [panic |-> NoPanic,
                  vars |-> <<Var(o.prefix \o name, f.type, <<>>, required,
                                 FALSE, FALSE, p)>>]
        rest == provider_parseVars(fs, path, k + 1, fv, o)
    IN  [panic |-> NoPanic, vars |-> here.vars \o rest.vars]

\* A faulty walk that gives a nested struct no part in the names.
ParseVarsFlat(v, fs, fv, o) == loader_parseVars(fs, <<>>, 1, fv, o)

\* A faulty walk that leaves the prefix of the loader out of the names.
ParseVarsUnprefixed(v, fs, fv, o) ==
    provider_parseVars(fs, <<>>, 1, fv, [o EXCEPT !.prefix = <<>>])

\* A faulty walk that takes every top-level field for an exported one.
ParseVarsAllExported(v, fs, fv, o) ==
    LET all == [k \in DOMAIN fs |-> [fs[k] EXCEPT !.exported = TRUE]] IN
    CASE v = "Options" -> parseVars(all, <<>>, 1, fv, o)
      [] v = "NameSep" -> nameSep_parseVars(all, <<>>, 1, fv, o)
      [] v = "loader" -> loader_parseVars(all, <<>>, 1, fv, o)
      [] OTHER -> provider_parseVars(all, <<>>, 1, fv, o)

\* The parseVars of the generation that is called.
ParseVarsOf(v, fs, fv, o) ==
    CASE v = "Options" -> parseVars(fs, <<>>, 1, fv, o)
      [] v = "NameSep" -> nameSep_parseVars(fs, <<>>, 1, fv, o)
      [] v = "loader" -> loader_parseVars(fs, <<>>, 1, fv, o)
      [] OTHER -> provider_parseVars(fs, <<>>, 1, fv, o)

---------------------------------------------------------------------------
(* Load.                                                                   *)

\* structPtr: v is a non-nil struct pointer.  The Elem of a nil pointer is
\* the invalid Value, whose kind is not Struct.
structPtr(v) == v.valid /\ v.kind = "Ptr" /\ v.elem = "Struct" /\ ~v.isNil

\* setDefaultOptions: an empty SliceSep becomes a space.
setDefaultOptions(o) ==
    IF o.sliceSep = <<>> THEN [o EXCEPT !.sliceSep = <<" ">>] ELSE o

NoResult == [kind |-> "none", names |-> <<>>, err |-> "", type |-> "", token |-> <<>>]

Returned(k, names, e, t) ==
    [kind |-> k, names |-> names, err |-> e, type |-> t, token |-> <<>>]

Panicked(p) ==
    [kind |-> "panic", names |-> <<>>, err |-> p.msg, type |-> "", token |-> p.token]

\* What the call does with an argument that is no struct pointer: the
\* LoadFrom generation returns ErrInvalidArgument, the later ones panic.
InvalidArgument(v) ==
    IF v = "LoadFrom" THEN Returned("ErrInvalidArgument", <<>>, "", "")
    ELSE IF v = "loader"
    THEN Panicked(Panic("env: argument must be a non-nil struct pointer", <<>>))
    ELSE Panicked(Panic("env: cfg must be a non-nil struct pointer", <<>>))

\* A faulty resolution that never falls back on the default.
ResolveIgnoresDefault(v, ss, x) ==
    LET r == lookupEnv(v, ss, x.Name, x.Expand)
    IN  IF r.ok THEN [set |-> TRUE, missing |-> FALSE, value |-> r.value]
        ELSE IF x.Required THEN [set |-> FALSE, missing |-> TRUE, value |-> <<>>]
        ELSE [set |-> FALSE, missing |-> FALSE, value |-> <<>>]

\* A faulty resolution that treats a missing required variable like a
\* missing optional one without a default: nothing is recorded.
ResolveSkipsRequired(v, ss, x) ==
    LET r == lookupEnv(v, ss, x.Name, x.Expand)
    IN  IF r.ok THEN [set |-> TRUE, missing |-> FALSE, value |-> r.value]
        ELSE IF x.Required \/ v = "LoadFrom" \/ ~x.hasDefaultTag
        THEN [set |-> FALSE, missing |-> FALSE, value |-> <<>>]
        ELSE [set |-> TRUE, missing |-> FALSE, value |-> x.Default]

\* A faulty resolution that also expands the default of an `expand` variable.
ResolveExpandsDefault(v, ss, x) ==
    LET r == IF v = "LoadFrom" THEN LookupEnv(v, ss, x.Name)
             ELSE lookupEnv(v, ss, x.Name, x.Expand)
        d == IF x.Expand THEN Expand(x.Default, 1, v, ss) ELSE x.Default
    IN  IF r.ok THEN [set |-> TRUE, missing |-> FALSE, value |-> r.value]
        ELSE IF x.Required THEN [set |-> FALSE, missing |-> TRUE, value |-> <<>>]
        ELSE IF v = "LoadFrom" THEN [set |-> FALSE, missing |-> FALSE, value |-> <<>>]
        ELSE IF v \in {"Options", "NameSep"} /\ ~x.hasDefaultTag
        THEN [set |-> FALSE, missing |-> FALSE, value |-> <<>>]
        ELSE [set |-> TRUE, missing |-> FALSE, value |-> d]

\* A faulty resolution that looks the tokens of an expanded value up under
\* the prefix of the loader.
ResolvePrefixedTokens(v, ss, x) ==
    LET pre == opts.prefix
        under(m) ==
            [k \in {SubSeq(q, Len(pre) + 1, Len(q)) :
                      q \in {q \in DOMAIN m : /\ Len(q) >= Len(pre)
                                              /\ SubSeq(q, 1, Len(pre)) = pre}} |->
                m[pre \o k]]
        r == LookupEnv(v, ss, x.Name)
    IN  IF r.ok
        THEN [set |-> TRUE, missing |-> FALSE,
              value |-> IF x.Expand /\ v # "LoadFrom"
                        THEN Expand(r.value, 1, v, [k \in DOMAIN ss |-> under(ss[k])])
                        ELSE r.value]
        ELSE IF x.Required THEN [set |-> FALSE, missing |-> TRUE, value |-> <<>>]
        ELSE IF v = "LoadFrom" THEN [set |-> FALSE, missing |-> FALSE, value |-> <<>>]
        ELSE IF v \in {"Options", "NameSep"} /\ ~x.hasDefaultTag
        THEN [set |-> FALSE, missing |-> FALSE, value |-> <<>>]
        ELSE [set |-> TRUE, missing |-> FALSE, value |-> x.Default]

\* A faulty resolution that, in every generation, coerces the printed value
\* of an absent leaf without a default tag.
ResolvePrintedDefault(v, ss, x) ==
    LET r == IF v = "LoadFrom" THEN LookupEnv(v, ss, x.Name)
             ELSE lookupEnv(v, ss, x.Name, x.Expand)
    IN  IF r.ok THEN [set |-> TRUE, missing |-> FALSE, value |-> r.value]
        ELSE IF x.Required THEN [set |-> FALSE, missing |-> TRUE, value |-> <<>>]
        ELSE IF v = "LoadFrom" THEN [set |-> FALSE, missing |-> FALSE, value |-> <<>>]
        ELSE [set |-> TRUE, missing |-> FALSE, value |-> x.Default]

\* The value one iteration of the loop resolves for a variable: found in the
\* source, a default, or nothing to set (missing or skipped).
Resolve(v, ss, x) ==
    LET r == IF v = "LoadFrom" THEN LookupEnv(v, ss, x.Name)
             ELSE lookupEnv(v, ss, x.Name, x.Expand)
    IN  IF r.ok THEN [set |-> TRUE, missing |-> FALSE, value |-> r.value]
        ELSE IF x.Required THEN [set |-> FALSE, missing |-> TRUE, value |-> <<>>]
        ELSE IF v = "LoadFrom" THEN [set |-> FALSE, missing |-> FALSE, value |-> <<>>]
        ELSE IF v \in {"Options", "NameSep"} /\ ~x.hasDefaultTag
        THEN [set |-> FALSE, missing |-> FALSE, value |-> <<>>]
        ELSE [set |-> TRUE, missing |-> FALSE, value |-> x.Default]

\* A faulty coercion that stores the zero value where the string is rejected.
CoerceNeverFails(x, value, o) ==
    LET c == IF kindOf(x.Type, {"Slice"}) /\ ~implements(x.Type)
             THEN setSlice(x.Type, Split(value, o.sliceSep))
             ELSE setValue(x.Type, value)
    IN  IF c.ok THEN c ELSE Ok(Zero(x.Type))

\* A faulty coercion that splits on a space whatever the separator given.
CoerceOnSpace(x, value, o) ==
    IF kindOf(x.Type, {"Slice"}) /\ ~implements(x.Type)
    THEN setSlice(x.Type, Split(value, <<" ">>))
    ELSE setValue(x.Type, value)

\* The coercion of a resolved string into the field of a variable: a slice
\* that is no TextUnmarshaler is split on the separator first.
Coerce(x, value, o) ==
    IF kindOf(x.Type, {"Slice"}) /\ ~implements(x.Type)
    THEN setSlice(x.Type, Split(value, o.sliceSep))
    ELSE setValue(x.Type, value)

\* defaultUsage: one row for every variable, with `required` or the
\* default, which is <empty> for a string without one.
defaultUsage(vs) ==
    [k \in DOMAIN vs |->
        [Name |-> vs[k].Name, Type |-> vs[k].Type, Required |-> vs[k].Required,
         Default |-> IF vs[k].Required THEN <<>>
                     ELSE IF kindOf(vs[k].Type, {"String"}) /\ vs[k].Default = <<>>
                     THEN <<"<", "e", "m", "p", "t", "y", ">">>
                     ELSE vs[k].Default]]

\* A faulty deferred function that writes the usage after every return.
deferredAlways(err) == Append(written, defaultUsage(vars))

\* The deferred function of loader.loadVars: with a writer from
\* WithUsageOnError, a non-nil error writes the usage message to it.
deferred(err) ==
    IF err /\ usageOutput THEN Append(written, defaultUsage(vars)) ELSE written

\* Load / LoadFrom up to the loop: the argument check, the options, and
\* parseVars, which the Options and NameSep generations also store in the
\* cache.
LoadCall ==
    /\ pc = "idle"
    /\ LET o == IF variant \in {"Options", "NameSep"} THEN setDefaultOptions(opts) ELSE opts
           parsed == ParseVarsOf(variant, decl, fields, o)
       IN  IF ~structPtr(cfg)
           THEN /\ result' = InvalidArgument(variant)
                /\ pc' = "done"
                /\ UNCHANGED <<opts, vars, cache>>
           ELSE IF parsed.panic # NoPanic
           THEN /\ result' = Panicked(parsed.panic)
                /\ pc' = "done"
                /\ opts' = o
                /\ UNCHANGED <<vars, cache>>
           ELSE /\ vars' = parsed.vars
                /\ opts' = o
                /\ cache' = IF variant \in {"Options", "NameSep"}
                            THEN [has |-> TRUE, vars |-> parsed.vars]
                            ELSE cache
                /\ pc' = "loop"
                /\ UNCHANGED result
    /\ precall' = fields
    /\ idx' = 1
    /\ notset' = <<>>
    /\ UNCHANGED <<variant, cfg, decl, fields, source, lookups, sets,
                   usageOutput, written, history, procs>>

\* A faulty iteration that restores the pre-call values of all the fields
\* when a coercion fails.
LoadVarRollback ==
    /\ pc = "loop"
    /\ idx <= Len(vars)
    /\ LET x == vars[idx]
           r == Resolve(variant, source, x)
           c == Coerce(x, r.value, opts)
       IN  /\ lookups' = lookups \o
                  (IF variant = "LoadFrom" THEN <<x.Name>>
                   ELSE lookupEnvKeys(variant, source, x.Name, x.Expand))
           /\ IF r.missing
              THEN /\ notset' = Append(notset, x.Name)
                   /\ idx' = idx + 1
                   /\ UNCHANGED <<fields, sets, result, pc, written>>
              ELSE IF ~r.set
              THEN /\ idx' = idx + 1
                   /\ UNCHANGED <<fields, sets, result, pc, notset, written>>
              ELSE IF c.ok
              THEN /\ fields' = [fields EXCEPT ![x.structField] = c.val]
                   /\ sets' = Append(sets, x.structField)
                   /\ idx' = idx + 1
                   /\ UNCHANGED <<result, pc, notset, written>>
              ELSE /\ result' = Returned("error", <<>>, c.err, c.type)
                   /\ pc' = "done"
                   /\ written' = deferred(TRUE)
                   /\ fields' = precall
                   /\ UNCHANGED <<sets, idx, notset>>
    /\ UNCHANGED <<variant, cfg, decl, precall, source, opts, vars, cache,
                   usageOutput, history, procs>>

\* One iteration of the loop over vars.
LoadVar ==
    /\ pc = "loop"
    /\ idx <= Len(vars)
    /\ LET x == vars[idx]
           r == Resolve(variant, source, x)
           c == Coerce(x, r.value, opts)
       IN  /\ lookups' = lookups \o
                  (IF variant = "LoadFrom" THEN <<x.Name>>
                   ELSE lookupEnvKeys(variant, source, x.Name, x.Expand))
           /\ IF r.missing
              THEN /\ notset' = Append(notset, x.Name)
                   /\ idx' = idx + 1
                   /\ UNCHANGED <<fields, sets, result, pc, written>>
              ELSE IF ~r.set
              THEN /\ idx' = idx + 1
                   /\ UNCHANGED <<fields, sets, result, pc, notset, written>>
              ELSE IF c.ok
              THEN /\ fields' = [fields EXCEPT ![x.structField] = c.val]
                   /\ sets' = Append(sets, x.structField)
                   /\ idx' = idx + 1
                   /\ UNCHANGED <<result, pc, notset, written>>
              ELSE /\ result' = Returned("error", <<>>, c.err, c.type)
                   /\ pc' = "done"
                   /\ written' = deferred(TRUE)
                   /\ UNCHANGED <<fields, sets, idx, notset>>
    /\ UNCHANGED <<variant, cfg, decl, precall, source, opts, vars, cache,
                   usageOutput, history, procs>>

\* A faulty return that drops the names collected by the loop.
LoadReturnNil ==
    /\ pc = "loop"
    /\ idx > Len(vars)
    /\ result' = Returned("nil", <<>>, "", "")
    /\ pc' = "done"
    /\ UNCHANGED <<variant, cfg, decl, fields, precall, source, opts, vars,
                   idx, notset, lookups, sets, cache,
                   usageOutput, written, history, procs>>

\* After the loop: a NotSetError when a required variable was missing.
LoadReturn ==
    /\ pc = "loop"
    /\ idx > Len(vars)
    /\ result' = IF Len(notset) > 0
                 THEN Returned("NotSetError", notset, "", "")
                 ELSE Returned("nil", <<>>, "", "")
    /\ pc' = "done"
    /\ written' = deferred(Len(notset) > 0)
    /\ UNCHANGED <<variant, cfg, decl, fields, precall, source, opts, vars,
                   idx, notset, lookups, sets, cache,
                   usageOutput, history, procs>>

Next == LoadCall \/ LoadVar \/ LoadReturn

---------------------------------------------------------------------------
(* The calls that are explored.  A struct has one leaf that varies over     *)
(* the types, tags, defaults and source entries, and around it int8 leaves  *)
(* that are plain or required and absent, well-formed or ill-formed in the  *)
(* source.  Field k is bound to the k-th name.                              *)

MaxFields == 2

Variants == {"LoadFrom", "loader", "Options"}

FieldNames == <<<<"A">>, <<"B">>, <<"C">>, <<"D">>>>

LeafTypes == {"int8", "uint8", "bool", "string", "net.IP", "complex64",
              "[]int8", "[]string"}

\* A string of the source that the type accepts.
GoodValue(t) ==
    CASE t \in {"int8", "uint8", "complex64"} -> <<"1">>
      [] t = "bool" -> <<"t", "r", "u", "e">>
      [] t = "string" -> <<"s">>
      [] t = "net.IP" -> <<"1", ".", "2", ".", "3", ".", "4">>
      [] t = "[]int8" -> <<"1", " ", "2">>
      [] OTHER -> <<"a", " ", "b">>

\* A string of the source that the type rejects, or another accepted one.
BadValue(t) ==
    CASE t = "int8" -> <<"2", "0", "0">>
      [] t = "uint8" -> <<"-", "1">>
      [] t = "[]int8" -> <<"1", " ", "x">>
      [] t \in {"string", "[]string"} -> <<>>
      [] OTHER -> <<"x">>

\* The value of a `default` tag.
DefaultValue(t) ==
    CASE t \in {"int8", "uint8", "complex64"} -> <<"5">>
      [] t = "bool" -> <<"t", "r", "u", "e">>
      [] t = "string" -> <<"d">>
      [] t = "net.IP" -> <<"5", ".", "6", ".", "7", ".", "8">>
      [] t = "[]int8" -> <<"5", " ", "6">>
      [] OTHER -> <<"d", " ", "e">>

\* The value of a leaf before the call: its zero value or one set by the caller.
PreValue(t, pre) ==
    IF pre = "zero" THEN Zero(t)
    ELSE CASE t \in {"int8", "int16", "uint8", "uint16", "time.Duration", "slog.Level"} -> 7
           [] t = "float64" -> [neg |-> FALSE, int |-> <<"7">>, frac |-> <<>>]
           [] t = "time.Time" -> <<2000, 1, 1, 0, 0, 0>>
           [] t = "[]net.IP" -> <<<<9, 9, 9, 9>>>>
           [] t = "[]time.Duration" -> <<7>>
           [] t = "complex64" -> 0
           [] t = "bool" -> TRUE
           [] t = "string" -> <<"p">>
           [] t = "net.IP" -> <<9, 9, 9, 9>>
           [] t = "[]int8" -> <<7>>
           [] OTHER -> <<<<"p">>>>

\* The `env` tag of a leaf bound to name, by its shape.
TagOf(name, shape) ==
    CASE shape = "plain" -> name
      [] shape = "required" -> name \o <<",">> \o REQUIRED
      [] shape = "expand" -> name \o <<",">> \o EXPAND
      [] shape = "empty" -> <<>>
      [] shape = "empty,required" -> <<",">> \o REQUIRED
      [] shape = "unknown" -> name \o <<",", "?">>
      [] OTHER -> name \o <<",">> \o EXPAND \o <<",", "?">>

LeafConfig(t, shape, hasDef, def, pre, entry) ==
    [type |-> t, shape |-> shape, hasDefault |-> hasDef, default |-> def,
     pre |-> pre, entry |-> entry]

Entries(t) == {NotFound, Found(GoodValue(t)), Found(BadValue(t))}

\* The default tags a leaf of the type may carry; the LoadFrom generation
\* reads no `default` tag.
Defaults(v, t) ==
    IF v = "LoadFrom" THEN {[has |-> FALSE, value |-> <<>>]}
    ELSE {[has |-> FALSE, value |-> <<>>], [has |-> TRUE, value |-> DefaultValue(t)]}
         \cup (IF t = "int8" THEN {[has |-> TRUE, value |-> <<"x">>]} ELSE {})

PreChoices(t) == IF t = "net.IP" THEN {"zero", "set"} ELSE {"set"}

\* Leaves with a well-formed tag, of every type.
TypedConfigs(v) ==
    UNION {{LeafConfig(t, sh, d.has, d.value, pre, e) :
               sh \in {"plain", "required"}, d \in Defaults(v, t),
               pre \in PreChoices(t), e \in Entries(t)} : t \in LeafTypes}

\* The values of the source that `expand` works on: B is the name of the
\* second field, Z is bound by no field.
ExpandValues ==
    {<<"$", "B">>, <<"$", "{", "B", "}", "x">>, <<"a", "$", "Z">>,
     <<"$", "B", "$", "B">>, <<"$">>, <<"$", "{", "}">>}

\* String leaves with and without the `expand` option.
ExpandConfigs(v) ==
    IF v = "LoadFrom" THEN {}
    ELSE {LeafConfig("string", sh, FALSE, <<>>, "set", Found(x)) :
             sh \in {"plain", "expand"}, x \in ExpandValues}
         \cup {LeafConfig("string", "expand", d.has, d.value, "set", NotFound) :
                 d \in {[has |-> FALSE, value |-> <<>>],
                        [has |-> TRUE, value |-> <<"$", "B">>]}}

\* Leaves with a malformed tag.
MalformedConfigs(v) ==
    {LeafConfig("int8", sh, FALSE, <<>>, "set", e) :
        sh \in (IF v = "LoadFrom" THEN {"empty", "empty,required"}
                ELSE {"empty", "empty,required", "unknown", "expand,unknown"}),
        e \in {NotFound, Found(<<"1">>)}}

SubjectConfigs(v) == TypedConfigs(v) \cup ExpandConfigs(v) \cup MalformedConfigs(v)

\* The leaves around the subject: a plain int8 that is absent, well-formed
\* or ill-formed in the source, or a required int8 that is absent.
ContextConfigs ==
    {LeafConfig("int8", "plain", FALSE, <<>>, "set", e) :
        e \in {NotFound, Found(<<"1">>), Found(<<"x">>)}}
    \cup {LeafConfig("int8", "required", FALSE, <<>>, "set", NotFound)}

\* A sequence of n leaves: the subject at position j among context leaves.
LeafSeq(n, j, s, c) == [k \in 1..n |-> IF k = j THEN s ELSE c[k]]

Leaf(t, tag, hasDef, def) ==
    [exported |-> TRUE, type |-> t, hasEnv |-> TRUE, env |-> tag,
     hasDefault |-> hasDef, default |-> def, fields |-> <<>>]

Struct(fs) ==
    [exported |-> TRUE, type |-> "struct", hasEnv |-> FALSE, env |-> <<>>,
     hasDefault |-> FALSE, default |-> <<>>, fields |-> fs]

DeclOf(cs) ==
    [k \in DOMAIN cs |-> Leaf(cs[k].type, TagOf(FieldNames[k], cs[k].shape),
                              cs[k].hasDefault, cs[k].default)]

\* The Map that holds the entries of the leaves.
MapOf(cs) ==
    LET set == {k \in DOMAIN cs : cs[k].entry.ok} IN
    [key \in {FieldNames[k] : k \in set} |->
        cs[CHOOSE k \in set : FieldNames[k] = key].entry.value]

StructPointer == [valid |-> TRUE, kind |-> "Ptr", elem |-> "Struct", isNil |-> FALSE]

\* nil, a struct passed by value, a pointer to an int, a nil struct pointer.
InvalidArguments ==
    {[valid |-> FALSE, kind |-> "Invalid", elem |-> "Invalid", isNil |-> FALSE],
     [valid |-> TRUE, kind |-> "Struct", elem |-> "Invalid", isNil |-> FALSE],
     [valid |-> TRUE, kind |-> "Ptr", elem |-> "Int", isNil |-> FALSE],
     [valid |-> TRUE, kind |-> "Ptr", elem |-> "Invalid", isNil |-> TRUE]}

\* A call on a struct of leaves, flat or held by one nested struct.
InitStruct ==
    \E n \in 1..MaxFields, nest \in BOOLEAN :
    \E j \in 1..n, s \in SubjectConfigs(variant) :
    \E c \in [(1..n) \ {j} -> ContextConfigs] :
        LET cs == LeafSeq(n, j, s, c) IN
        /\ nest => n = 1
        /\ cfg = StructPointer
        /\ decl = (IF nest THEN <<Struct(DeclOf(cs))>> ELSE DeclOf(cs))
        /\ fields = [p \in {(IF nest THEN <<1, k>> ELSE <<k>>) : k \in 1..n} |->
                        PreValue(cs[p[Len(p)]].type, cs[p[Len(p)]].pre)]
        /\ source = <<MapOf(cs)>>

\* A call on something that is no pointer to a struct.
InitInvalid ==
    /\ cfg \in InvalidArguments
    /\ decl = <<>>
    /\ fields = [p \in {} |-> 0]
    /\ source = <<[key \in {} |-> <<>>]>>

Init ==
    /\ variant \in Variants
    /\ (InitStruct \/ InitInvalid)
    /\ precall = fields
    /\ opts = [prefix |-> <<>>, nameSep |-> <<>>,
               sliceSep |-> IF variant = "Options" THEN <<>> ELSE <<" ">>]
    /\ pc = "idle"
    /\ vars = <<>>
    /\ idx = 1
    /\ notset = <<>>
    /\ result = NoResult
    /\ lookups = <<>>
    /\ sets = <<>>
    /\ cache = [has |-> FALSE, vars |-> <<>>]
    /\ usageOutput = FALSE
    /\ written = <<>>
    /\ history = <<>>
    /\ procs = <<>>

Spec == Init /\ [][Next]_vars_all

---------------------------------------------------------------------------
(* The calls that are explored for the names: a leaf A under a chain of    *)
(* nested structs, a leaf looked up in several sources, and a leaf next to *)
(* a field that is not bound.                                              *)

MaxDepth == 2

MaxSources == 3

Generations == Variants \cup {"NameSep"}

\* The generations whose Options carry a NameSep.
WithNameSep == {"NameSep", "Options"}

NameSeps == {<<>>, <<"_">>, <<".">>}

Prefixes == {<<>>, <<"P">>}

\* The `env` tag of a nested struct: none, empty, or a name.
NestTags ==
    {[hasEnv |-> FALSE, env |-> <<>>], [hasEnv |-> TRUE, env |-> <<>>],
     [hasEnv |-> TRUE, env |-> <<"D">>]}

Chains == UNION {[1..n -> NestTags] : n \in 0..MaxDepth}

Nested(tag, fs) == [Struct(fs) EXCEPT !.hasEnv = tag.hasEnv, !.env = tag.env]

\* The fields fs held by a chain of nested structs, the outermost first.
RECURSIVE Wrap(_, _)
Wrap(chain, fs) ==
    IF chain = <<>> THEN fs ELSE <<Nested(chain[1], Wrap(Tail(chain), fs))>>

\* The path of field k under a chain.
PathUnder(chain, k) == [i \in 1..(Len(chain) + 1) |-> IF i <= Len(chain) THEN 1 ELSE k]

\* The names a source may hold for the leaf A under a chain: every struct
\* gives nothing, a separator, or its tag and a separator.
RECURSIVE NameCandidates(_, _)
NameCandidates(chain, seps) ==
    IF chain = <<>> THEN {<<"A">>}
    ELSE {pre \o rest :
            pre \in {<<>>} \cup seps \cup {chain[1].env \o sep : sep \in seps},
            rest \in NameCandidates(Tail(chain), seps)}

\* The options of a call: a NameSep where the generation has one, a prefix
\* where the generation has one.
OptionsOf(v, sep, prefix) ==
    [prefix |-> IF v \in WithNameSep THEN <<>> ELSE prefix,
     nameSep |-> IF v \in WithNameSep THEN sep ELSE <<>>,
     sliceSep |-> IF v \in WithNameSep THEN <<>> ELSE <<" ">>]

\* The state of a call that has not started.
Idle ==
    /\ precall = fields
    /\ pc = "idle"
    /\ vars = <<>>
    /\ idx = 1
    /\ notset = <<>>
    /\ result = NoResult
    /\ lookups = <<>>
    /\ sets = <<>>
    /\ cache = [has |-> FALSE, vars |-> <<>>]
    /\ usageOutput = FALSE
    /\ written = <<>>
    /\ history = <<>>
    /\ procs = <<>>

\* A leaf A, plain or required, under a chain of nested structs; the source
\* holds one of the names or nothing.
InitNesting ==
    \E chain \in Chains, sep \in NameSeps, prefix \in Prefixes,
       shape \in {"plain", "required"} :
    \E key \in {<<>>} \cup {pre \o n : pre \in {<<>>, prefix},
                                     n \in NameCandidates(chain, {sep, <<"_">>})} :
        /\ cfg = StructPointer
        /\ decl = Wrap(chain, <<Leaf("int8", TagOf(<<"A">>, shape), FALSE, <<>>)>>)
        /\ fields = [p \in {PathUnder(chain, 1)} |-> 7]
        /\ source = <<IF key = <<>> THEN [k \in {} |-> <<>>]
                      ELSE [k \in {key} |-> <<"1">>]>>
        /\ opts = OptionsOf(variant, sep, prefix)

\* The Maps over the key A.
SourceMaps ==
    {[k \in {} |-> <<>>]} \cup {[k \in {<<"A">>} |-> v] : v \in {<<"1">>, <<"2">>}}

\* Two leaves bound to A, the second required, and a composite of sources.
InitSources ==
    \E n \in 1..MaxSources :
    \E ss \in [1..n -> SourceMaps] :
        /\ cfg = StructPointer
        /\ decl = <<Leaf("int8", <<"A">>, FALSE, <<>>),
                    Leaf("int8", TagOf(<<"A">>, "required"), FALSE, <<>>)>>
        /\ fields = [p \in {<<1>>, <<2>>} |-> 7]
        /\ source = ss
        /\ opts = OptionsOf(variant, <<>>, <<>>)

\* A field that is not bound: unexported with or without an `env` tag, or
\* exported without one.
IgnoredFields ==
    {[Leaf(t, tag, FALSE, <<>>) EXCEPT !.exported = FALSE] :
        t \in {"int8", "complex64", "[]int8"},
        tag \in {<<"A">>, TagOf(<<"A">>, "required")}}
    \cup {[Leaf(t, <<>>, FALSE, <<>>) EXCEPT !.exported = x, !.hasEnv = FALSE] :
            t \in {"int8", "complex64", "[]int8"}, x \in BOOLEAN}

\* A field A that is not bound next to a leaf B, flat or in a nested struct;
\* the source may hold both names.
InitIgnored ==
    \E f \in IgnoredFields, nest \in BOOLEAN,
       a \in {NotFound, Found(<<"1">>), Found(<<"x">>)},
       b \in {NotFound, Found(<<"1">>)} :
        LET fs == <<f, Leaf("int8", <<"B">>, FALSE, <<>>)>>
            held == {k \in {1, 2} : (IF k = 1 THEN a ELSE b).ok}
        IN  /\ cfg = StructPointer
            /\ decl = (IF nest THEN <<Struct(fs)>> ELSE fs)
            /\ fields = [p \in {(IF nest THEN <<1, k>> ELSE <<k>>) : k \in 1..2} |->
                            IF p[Len(p)] = 1 THEN PreValue(f.type, "set") ELSE 7]
            /\ source = <<[key \in {FieldNames[k] : k \in held} |->
                            IF key = <<"A">> THEN a.value ELSE b.value]>>
            /\ opts = OptionsOf(variant, <<>>, <<>>)

InitNames ==
    /\ variant \in Generations
    /\ (InitNesting \/ InitSources \/ InitIgnored)
    /\ Idle

SpecNames == InitNames /\ [][Next]_vars_all

---------------------------------------------------------------------------
(* The calls that are explored for the coercions: one leaf A of every type *)
(* that has a rule, and a source that holds a string for it.               *)

CoercedTypes ==
    {"int8", "int16", "uint8", "uint16", "time.Duration", "slog.Level",
     "time.Time", "net.IP", "float64", "bool", "string",
     "[]int8", "[]string", "[]net.IP", "[]time.Duration"}

\* The strings of the source for a leaf of a type.
TypeTexts(t) ==
    CASE t = "int8" ->
            {<<"1", "2", "7">>, <<"1", "2", "8">>, <<"-", "1", "2", "8">>,
            <<"-", "1", "2", "9">>, <<"2", "0", "0">>, <<"+",
            "5">>, <<"0", "0", "7">>, <<"-", "0">>, <<>>, <<"x">>,
            <<"1", ".", "5">>, <<"1", " ", "2">>}
      [] t = "int16" ->
            {<<"3", "2", "7", "6", "7">>, <<"3", "2", "7", "6", "8">>, <<"-",
            "3", "2", "7", "6", "8">>, <<"-", "3", "2", "7", "6",
            "9">>, <<"2", "0", "0">>, <<"+", "5">>, <<"x">>}
      [] t = "uint8" ->
            {<<"2", "5", "5">>, <<"2", "5", "6">>, <<"0">>, <<"-", "1">>,
            <<"+", "1">>, <<"2", "0", "0">>, <<"x">>, <<>>}
      [] t = "uint16" ->
            {<<"6", "5", "5", "3", "5">>, <<"6", "5", "5", "3", "6">>, <<"2",
            "5", "6">>, <<"-", "1">>, <<"x">>}
      [] t = "time.Duration" ->
            {<<"1", "s">>, <<"5">>, <<"0">>, <<"1", "5", "0", "0", "m", "s">>,
            <<"1", ".", "5", "s">>, <<"1", "s", "5", "0", "0",
            "m", "s">>, <<"-", "1", "s">>, <<"1", "x">>, <<"s">>,
            <<>>, <<"1", "0", "0", "µ", "s">>, <<"1", "u", "s">>,
            <<".", "5", "s">>, <<"+", "2", "n", "s">>}
      [] t = "slog.Level" ->
            {<<"I", "N", "F", "O">>, <<"i", "n", "f", "o">>, <<"W", "A", "R",
            "N", "+", "2">>, <<"E", "R", "R", "O", "R", "-",
            "1">>, <<"4">>, <<"D", "E", "B", "U", "G">>, <<"x">>,
            <<>>, <<"I", "N", "F", "O", "+", "x">>}
      [] t = "time.Time" ->
            {<<"2", "0", "2", "4", "-", "0", "2", "-", "2", "9", "T", "1",
            "2", ":", "0", "0", ":", "0", "0", "Z">>, <<"2", "0",
            "2", "3", "-", "0", "2", "-", "2", "9", "T", "1", "2",
            ":", "0", "0", ":", "0", "0", "Z">>, <<"5">>, <<>>}
      [] t = "net.IP" ->
            {<<"1", ".", "2", ".", "3", ".", "4">>, <<"1", ".", "2", ".", "3",
            ".", "4", " ", "5", ".", "6", ".", "7", ".", "8">>,
            <<"1", ".", "2", ".", "3", ".", "4", ";", "5", ".",
            "6", ".", "7", ".", "8">>, <<>>, <<"x">>, <<"2", "5",
            "6", ".", "0", ".", "0", ".", "1">>, <<"1">>}
      [] t = "float64" ->
            {<<"0", ".", "1">>, <<"1">>, <<"-", "2", ".", "5", "0">>, <<"x">>,
            <<>>, <<".", "5">>, <<"1", ".">>, <<".">>}
      [] t = "bool" ->
            {<<"t", "r", "u", "e">>, <<"1">>, <<"y", "e", "s">>, <<>>}
      [] t = "string" ->
            {<<"f", "o", "o", " ", "b", "a", "r">>, <<"a", ";", "b">>, <<>>}
      [] t = "[]int8" ->
            {<<"1", " ", "2", " ", "3">>, <<"1", ";", "2", ";", "3">>,
            <<"1">>, <<>>, <<"1", " ", " ", "2">>, <<"1", " ",
            "2", "0", "0">>, <<"1", ";", "x">>, <<"-", "8", " ",
            "0">>}
      [] t = "[]string" ->
            {<<"a", " ", "b">>, <<"a", ";", "b", " ", "c">>, <<>>, <<";">>}
      [] t = "[]net.IP" ->
            {<<"0", ".", "0", ".", "0", ".", "0", " ", "2", "5", "5", ".",
            "2", "5", "5", ".", "2", "5", "5", ".", "2", "5",
            "5">>, <<"1", ".", "2", ".", "3", ".", "4", ";", "5",
            ".", "6", ".", "7", ".", "8">>, <<"1", ".", "2", ".",
            "3", ".", "4">>, <<"1", ".", "2", ".", "3", ".", "4",
            " ", "x">>, <<>>}
      [] OTHER ->
            {<<"1", "s", " ", "1", "m", "s">>, <<"1", "s", ";", "5">>, <<"1", "s">>}

\* The separator of slices that the caller gives: none, or a semicolon.
SliceSeps == {<<>>, <<";">>}

\* A leaf A of a type with a rule, a source that holds a string for A, and
\* a separator of slices; the loaders without Options start from a space.
InitTypes ==
    /\ variant \in Generations
    /\ \E t \in CoercedTypes, sep \in SliceSeps, pre \in {"zero", "set"} :
       \E text \in TypeTexts(t) :
        /\ cfg = StructPointer
        /\ decl = <<Leaf(t, <<"A">>, FALSE, <<>>)>>
        /\ fields = [p \in {<<1>>} |-> PreValue(t, pre)]
        /\ source = <<[k \in {<<"A">>} |-> text]>>
        /\ opts = [OptionsOf(variant, <<>>, <<>>) EXCEPT
                      !.sliceSep = IF sep = <<>> THEN @ ELSE sep]
    /\ Idle

SpecTypes == InitTypes /\ [][Next]_vars_all

---------------------------------------------------------------------------
(* Variables set to the empty string.                                      *)

EmptyTypes == {"string", "int8", "uint8", "float64", "bool", "time.Duration"}

\* A `default` tag that the type accepts.
EmptyDefault(t) ==
    CASE t = "string" -> <<"d">>
      [] t = "bool" -> <<"t", "r", "u", "e">>
      [] t = "time.Duration" -> <<"1", "s">>
      [] OTHER -> <<"5">>

\* A leaf A set by the caller, plain or required, with or without a default
\* tag, and a source in which A is the empty string or does not occur.
InitEmpty ==
    /\ variant \in Generations
    /\ \E t \in EmptyTypes, sh \in {"plain", "required"}, d \in BOOLEAN,
          present \in BOOLEAN :
        /\ cfg = StructPointer
        /\ decl = <<Leaf(t, TagOf(<<"A">>, sh), d /\ variant # "LoadFrom",
                         IF d /\ variant # "LoadFrom" THEN EmptyDefault(t) ELSE <<>>)>>
        /\ fields = [p \in {<<1>>} |-> PreValue(t, "set")]
        /\ source = <<[k \in (IF present THEN {<<"A">>} ELSE {}) |-> <<>>]>>
        /\ opts = OptionsOf(variant, <<>>, <<>>)
    /\ Idle

SpecEmpty == InitEmpty /\ [][Next]_vars_all

---------------------------------------------------------------------------
(* Values printed and parsed back.                                         *)

\* The types of scalar kind, with their bit widths.
ScalarKinds ==
    {"int8", "int16", "uint8", "uint16", "float64", "bool", "string",
     "time.Duration"}

\* Values of a scalar type, the limits of its range included.
RoundTripValues(t) ==
    CASE t = "int8" -> {-128, -1, 0, 7, 127}
      [] t = "int16" -> {-32768, -129, 0, 128, 32767}
      [] t = "uint8" -> {0, 128, 255}
      [] t = "uint16" -> {0, 256, 65535}
      [] t = "float64" ->
            {[neg |-> FALSE, int |-> <<"0">>, frac |-> <<>>],
             [neg |-> FALSE, int |-> <<"7">>, frac |-> <<>>],
             [neg |-> TRUE, int |-> <<"2">>, frac |-> <<"5">>],
             [neg |-> FALSE, int |-> <<"0">>, frac |-> <<"1">>],
             [neg |-> FALSE, int |-> <<"1", "0", "0">>, frac |-> <<"0", "2", "5">>]}
      [] t = "bool" -> BOOLEAN
      [] t = "string" ->
            {<<>>, <<"p">>, <<"a", " ", "b">>, <<" ">>, <<"0", "7">>, <<"$", "A">>}
      [] OTHER ->
            {0, 7, -7, 1500, 100000, 1000000, 1500000000, -1000000000,
             1000000001, 2147483647}

\* A leaf A of a scalar type.  Either the source holds for A the printed
\* form of a value of the type and the field holds another value, or the
\* source holds nothing and the field holds the value, which parseVars
\* prints as the default of the leaf.
InitRoundTrip ==
    /\ variant \in Generations
    /\ \E t \in ScalarKinds, pre \in {"zero", "set"}, present \in BOOLEAN :
       \E v \in RoundTripValues(t) :
        /\ cfg = StructPointer
        /\ decl = <<Leaf(t, <<"A">>, FALSE, <<>>)>>
        /\ fields = [p \in {<<1>>} |-> IF present THEN PreValue(t, pre) ELSE v]
        /\ ~present => pre = "zero"
        /\ source = <<[k \in (IF present THEN {<<"A">>} ELSE {}) |-> Sprintf(t, v)]>>
        /\ opts = OptionsOf(variant, <<>>, <<>>)
    /\ Idle

SpecRoundTrip == InitRoundTrip /\ [][Next]_vars_all

---------------------------------------------------------------------------
(* Interpolation under a prefix.                                           *)

\* A string leaf A, with or without `expand`, loaded with or without the
\* prefix P.  The source holds the string of the leaf under the prefixed
\* name, under the bare name or not at all, and may hold 1 for B and 2 for
\* the prefixed B.
InitTokens ==
    /\ variant \in {"loader", "Options"}
    /\ \E prefix \in Prefixes, sh \in {"plain", "expand"},
          text \in {<<"$", "B">>, <<"$", "{", "B", "}", "x">>,
                    <<"a", "$", "B", "$", "B">>, <<"b">>},
          at \in {"prefixed", "bare", "none"}, hasB \in BOOLEAN, hasPB \in BOOLEAN :
        LET o == OptionsOf(variant, <<>>, prefix)
            own == IF at = "prefixed" THEN {o.prefix \o <<"A">>}
                   ELSE IF at = "bare" THEN {<<"A">>} ELSE {}
            keys == own \cup (IF hasB THEN {<<"B">>} ELSE {})
                        \cup (IF hasPB THEN {o.prefix \o <<"B">>} ELSE {})
        IN  /\ cfg = StructPointer
            /\ decl = <<Leaf("string", TagOf(<<"A">>, sh), FALSE, <<>>)>>
            /\ fields = [p \in {<<1>>} |-> <<"p">>]
            /\ source = <<[k \in keys |-> IF k \in own THEN text
                                         ELSE IF k = <<"B">> THEN <<"1">> ELSE <<"2">>]>>
            /\ opts = o
    /\ Idle

SpecTokens == InitTokens /\ [][Next]_vars_all

---------------------------------------------------------------------------
(* Load called more than once, and Usage.                                  *)

\* The calls of Load on one struct, and the usage messages written.
MaxCalls == 2

MaxWrites == 2

\* The caller calls Load again on the same struct, with the same source and
\* options, after the call returned: the fields stay as the call left them.
LoadAgain ==
    /\ pc = "done"
    /\ result.kind # "panic"
    /\ Len(history) + 1 < MaxCalls
    /\ history' = Append(history, [pre |-> precall, post |-> fields, result |-> result])
    /\ pc' = "idle"
    /\ precall' = fields
    /\ vars' = <<>>
    /\ idx' = 1
    /\ notset' = <<>>
    /\ result' = NoResult
    /\ lookups' = <<>>
    /\ sets' = <<>>
    /\ UNCHANGED <<variant, cfg, decl, fields, source, opts, cache,
                   usageOutput, written, procs>>

\* Usage(cfg, w, opts), called while no Load is running: the variables come
\* from the cache when Load stored them for the type, else from parseVars on
\* the struct as it is, and defaultUsage writes one message.
Usage ==
    /\ pc \in {"idle", "done"}
    /\ result.kind # "panic"
    /\ variant \in {"Options", "NameSep"}
    /\ Len(written) < MaxWrites
    /\ LET parsed == ParseVarsOf(variant, decl, fields, setDefaultOptions(opts))
       IN  IF ~structPtr(cfg)
           THEN /\ result' = InvalidArgument(variant)
                /\ pc' = "done"
                /\ UNCHANGED written
           ELSE IF ~cache.has /\ parsed.panic # NoPanic
           THEN /\ result' = Panicked(parsed.panic)
                /\ pc' = "done"
                /\ UNCHANGED written
           ELSE /\ written' = Append(written,
                        defaultUsage(IF cache.has THEN cache.vars ELSE parsed.vars))
                /\ UNCHANGED <<result, pc>>
    /\ UNCHANGED <<variant, cfg, decl, fields, precall, source, opts, vars, idx,
                   notset, lookups, sets, cache, usageOutput, history, procs>>

NextCalls == LoadCall \/ LoadVar \/ LoadReturn \/ LoadAgain \/ Usage

\* A struct of one or two leaves that the caller set, loaded by any
\* generation; the loader may have a writer from WithUsageOnError.
InitCalls ==
    /\ variant \in Generations
    /\ usageOutput \in BOOLEAN
    /\ usageOutput => variant = "loader"
    /\ \E n \in 1..MaxFields :
       \E j \in 1..n, s \in {c \in TypedConfigs(variant) : c.type \in {"int8", "string", "[]string"}} :
       \E c \in [(1..n) \ {j} -> ContextConfigs] :
        LET cs == LeafSeq(n, j, s, c) IN
        /\ cfg = StructPointer
        /\ decl = DeclOf(cs)
        /\ fields = [p \in {<<k>> : k \in 1..n} |-> PreValue(cs[p[1]].type, cs[p[1]].pre)]
        /\ source = <<MapOf(cs)>>
    /\ opts = OptionsOf(variant, <<>>, <<>>)
    /\ precall = fields
    /\ pc = "idle"
    /\ vars = <<>>
    /\ idx = 1
    /\ notset = <<>>
    /\ result = NoResult
    /\ lookups = <<>>
    /\ sets = <<>>
    /\ cache = [has |-> FALSE, vars |-> <<>>]
    /\ written = <<>>
    /\ history = <<>>
    /\ procs = <<>>

SpecCalls == InitCalls /\ [][NextCalls]_vars_all

---------------------------------------------------------------------------
(* Load and Usage called from several goroutines, each on its own instance *)
(* of one struct type with the int8 leaf A.  The cache is a plain map: an   *)
(* access to it takes time, and nothing keeps two accesses apart.  Go      *)
(* gives no meaning to a map access that overlaps a write: the read may    *)
(* see the map before or after the write, and the runtime may end the      *)
(* program.                                                                *)

\* The goroutines.
NProcs == 2

\* The variables parseVars reads from the instance of goroutine i.
InstanceVars(i) ==
    ParseVarsOf(variant, decl, [p \in {<<1>>} |-> procs[i].value],
                setDefaultOptions(opts)).vars

NoFatal == \A i \in DOMAIN procs : procs[i].pc # "fatal"

\* An access of goroutine i to the map overlaps a write of another one.
Overlaps(i) ==
    /\ procs[i].pc \in {"reading", "writing"}
    /\ \E j \in DOMAIN procs \ {i} :
          \/ procs[j].pc = "writing"
          \/ procs[i].pc = "writing" /\ procs[j].pc = "reading"

RaceFrame ==
    UNCHANGED <<variant, cfg, decl, fields, precall, source, opts, pc, vars, idx,
                notset, result, lookups, sets, usageOutput, history>>

\* Load: vars := parseVars(v, opts).
GoLoadParse(i) ==
    /\ NoFatal
    /\ procs[i].op = "Load" /\ procs[i].pc = "start"
    /\ procs' = [procs EXCEPT ![i].pc = "parsed", ![i].vars = InstanceVars(i)]
    /\ UNCHANGED <<cache, written>>
    /\ RaceFrame

\* Load: cache[v.Type()] = vars begins.
GoLoadWriteBegin(i) ==
    /\ NoFatal
    /\ procs[i].pc = "parsed"
    /\ procs' = [procs EXCEPT ![i].pc = "writing"]
    /\ UNCHANGED <<cache, written>>
    /\ RaceFrame

\* Load: the write to the map ends; the map holds the vars of this call.
GoLoadWriteEnd(i) ==
    /\ NoFatal
    /\ procs[i].pc = "writing"
    /\ cache' = [has |-> TRUE, vars |-> procs[i].vars]
    /\ procs' = [procs EXCEPT ![i].pc = "stored"]
    /\ UNCHANGED written
    /\ RaceFrame

\* Load: the loop over vars on the instance of the goroutine, and the return.
GoLoadLoop(i) ==
    /\ NoFatal
    /\ procs[i].pc = "stored"
    /\ LET x == procs[i].vars[1]
           r == Resolve(variant, source, x)
           c == Coerce(x, r.value, opts)
       IN  procs' = [procs EXCEPT ![i].pc = "done",
                                  ![i].value = IF r.set /\ c.ok THEN c.val ELSE @]
    /\ UNCHANGED <<cache, written>>
    /\ RaceFrame

\* Usage: vars, ok := cache[v.Type()] begins.
GoUsageReadBegin(i) ==
    /\ NoFatal
    /\ procs[i].op = "Usage" /\ procs[i].pc = "start"
    /\ procs' = [procs EXCEPT ![i].pc = "reading"]
    /\ UNCHANGED <<cache, written>>
    /\ RaceFrame

\* Usage: the read of the map ends.  A read that overlaps a write may see
\* the map as it is or as the write leaves it.
GoUsageReadEnd(i) ==
    /\ NoFatal
    /\ procs[i].pc = "reading"
    /\ \E seen \in {cache} \cup {[has |-> TRUE, vars |-> procs[j].vars] :
                       j \in {j \in DOMAIN procs : procs[j].pc = "writing"}} :
          procs' = [procs EXCEPT ![i].pc = "read",
                                 ![i].vars = IF seen.has THEN seen.vars
                                             ELSE InstanceVars(i)]
    /\ UNCHANGED <<cache, written>>
    /\ RaceFrame

\* Usage: defaultUsage(vars, w, opts).
GoUsageWrite(i) ==
    /\ NoFatal
    /\ procs[i].pc = "read"
    /\ written' = Append(written, defaultUsage(procs[i].vars))
    /\ procs' = [procs EXCEPT ![i].pc = "done"]
    /\ UNCHANGED cache
    /\ RaceFrame

\* The runtime finds a map access that overlaps a write and ends the
\* program: "fatal error: concurrent map writes" or "concurrent map read
\* and map write".
GoFatal(i) ==
    /\ NoFatal
    /\ Overlaps(i)
    /\ procs' = [procs EXCEPT ![i].pc = "fatal"]
    /\ UNCHANGED <<cache, written>>
    /\ RaceFrame

NextRace ==
    \E i \in 1..NProcs :
        \/ GoLoadParse(i) \/ GoLoadWriteBegin(i) \/ GoLoadWriteEnd(i) \/ GoLoadLoop(i)
        \/ GoUsageReadBegin(i) \/ GoUsageReadEnd(i) \/ GoUsageWrite(i)
        \/ GoFatal(i)

\* NProcs goroutines about to call Load or Usage, each on its own instance
\* in which A is 0 or 7; the source holds 1 for A or nothing.
InitRace ==
    /\ variant \in {"Options", "NameSep"}
    /\ cfg = StructPointer
    /\ decl = <<Leaf("int8", <<"A">>, FALSE, <<>>)>>
    /\ fields = [p \in {<<1>>} |-> 0]
    /\ source \in {<<[k \in {<<"A">>} |-> <<"1">>]>>, <<[k \in {} |-> <<>>]>>}
    /\ opts = OptionsOf(variant, <<>>, <<>>)
    /\ procs \in [1..NProcs ->
                    [op : {"Load", "Usage"}, pc : {"start"},
                     value : {0, 7}, vars : {<<>>}]]
    /\ precall = fields
    /\ pc = "idle"
    /\ vars = <<>>
    /\ idx = 1
    /\ notset = <<>>
    /\ result = NoResult
    /\ lookups = <<>>
    /\ sets = <<>>
    /\ cache = [has |-> FALSE, vars |-> <<>>]
    /\ usageOutput = FALSE
    /\ written = <<>>
    /\ history = <<>>

SpecRace == InitRace /\ [][NextRace]_vars_all

---------------------------------------------------------------------------
(* The terms of the properties, read from the declaration of the struct    *)
(* and from the source, not from what the call computed.                   *)

\* The paths of the leaves in depth-first declaration order.
RECURSIVE LeavesInOrder(_, _, _)
LeavesInOrder(fs, path, k) ==
    IF k > Len(fs) THEN <<>>
    ELSE (IF fs[k].type = "struct"
          THEN LeavesInOrder(fs[k].fields, Append(path, k), 1)
          ELSE <<Append(path, k)>>) \o LeavesInOrder(fs, path, k + 1)

Leaves == LeavesInOrder(decl, <<>>, 1)

LeafSet == {Leaves[k] : k \in DOMAIN Leaves}

\* The position of a leaf in the traversal.
Position(p) == CHOOSE k \in DOMAIN Leaves : Leaves[k] = p

TypeOf(p) == FieldAt(decl, p).type

TagParts(p) == Split(FieldAt(decl, p).env, <<",">>)

Flags(p) == Tail(TagParts(p))

\* A bound leaf: exported, with an `env` tag that names a variable.
Bound(p) == FieldAt(decl, p).exported /\ FieldAt(decl, p).hasEnv /\ TagParts(p)[1] # <<>>

EffectiveName(p) == opts.prefix \o TagParts(p)[1]

IsRequired(p) == Bound(p) /\ Contains(Flags(p), REQUIRED)

HasExpand(p) == Bound(p) /\ variant # "LoadFrom" /\ Contains(Flags(p), EXPAND)

HasDefault(p) == Bound(p) /\ variant # "LoadFrom" /\ FieldAt(decl, p).hasDefault

InSource(p) == Bound(p) /\ LookupEnv(variant, source, EffectiveName(p)).ok

\* An `env` tag with an empty name or an unknown flag; the LoadFrom
\* generation has no such notion.
Malformed(p) ==
    /\ FieldAt(decl, p).exported /\ FieldAt(decl, p).hasEnv
    /\ TagParts(p)[1] = <<>> \/ \E k \in DOMAIN Flags(p) : Flags(p)[k] \notin {REQUIRED, EXPAND}

WellFormedStruct ==
    \A p \in LeafSet : ~Malformed(p) /\ ~(IsRequired(p) /\ HasDefault(p))

\* The string the source holds for a leaf, as the leaf receives it.
FoundString(p) ==
    LET v == LookupEnv(variant, source, EffectiveName(p)).value IN
    IF HasExpand(p) THEN Expand(v, 1, variant, source) ELSE v

\* The coercion of a string for a type, with the default separator.
CoercionOf(t, s) ==
    IF t \in SliceTypes THEN setSlice(t, Split(s, <<" ">>)) ELSE setValue(t, s)

\* The string the call tries to coerce for a leaf, if any: the found one,
\* else (not required) the default tag, else in the loader generation the
\* printed pre-call value.
Attempt(p) ==
    IF ~Bound(p) THEN NotFound
    ELSE IF InSource(p) THEN Found(FoundString(p))
    ELSE IF IsRequired(p) THEN NotFound
    ELSE IF HasDefault(p) THEN Found(FieldAt(decl, p).default)
    ELSE IF variant = "loader" THEN Found(Sprintf(TypeOf(p), precall[p]))
    ELSE NotFound

CoercionFails(p) == Attempt(p).ok /\ ~CoercionOf(TypeOf(p), Attempt(p).value).ok

MissingLeaf(p) == IsRequired(p) /\ ~InSource(p)

\* The effective names of the required leaves absent from the source, in
\* depth-first declaration order.
MissingNames ==
    LET ms == SelectSeq(Leaves, MissingLeaf) IN
    [k \in DOMAIN ms |-> EffectiveName(ms[k])]

Count(ss, x) == Cardinality({k \in DOMAIN ss : ss[k] = x})

Completed == pc = "done" /\ result.kind \in {"nil", "NotSetError"}

---------------------------------------------------------------------------
(* Missing required variables.                                             *)

C2_NotSetErrorIffAllMissing ==
    Completed =>
        /\ result.kind = "NotSetError" <=> MissingNames # <<>>
        /\ result.names = MissingNames
        /\ \A p \in LeafSet : InSource(p) =>
              /\ CoercionOf(TypeOf(p), FoundString(p)).ok
              /\ fields[p] = CoercionOf(TypeOf(p), FoundString(p)).val
              /\ Contains(sets, p)

\* A NotSetError that names two leaves, in declaration order.
C2_Witness ==
    /\ pc = "done" /\ result.kind = "NotSetError"
    /\ Len(result.names) = 2
    /\ result.names = <<FieldNames[1], FieldNames[2]>>

\* C3: if the coercion of a leaf fails, Load returns the coercion error of
\* the first such leaf and never a NotSetError, whatever required leaves
\* were recorded as missing before it, and no leaf after it is assigned.
C3_CoercionErrorFirst ==
    pc = "done" /\ result.kind # "panic" /\ (\E p \in LeafSet : CoercionFails(p)) =>
        LET bad == {k \in DOMAIN Leaves : CoercionFails(Leaves[k])}
            f == Leaves[CHOOSE k \in bad : \A j \in bad : k <= j]
            c == CoercionOf(TypeOf(f), Attempt(f).value)
        IN  /\ result.kind = "error"
            /\ result.err = c.err /\ result.type = c.type
            /\ result.names = <<>>
            /\ \A q \in LeafSet : Position(q) >= Position(f) => fields[q] = precall[q]

\* A coercion error returned after a required leaf was recorded as missing.
C3_Witness ==
    /\ pc = "done" /\ result.kind = "error"
    /\ notset # <<>>
    /\ \E p \in LeafSet : CoercionFails(p) /\ Position(p) = idx

---------------------------------------------------------------------------
(* Defaults.                                                               *)

\* The types for which setValue has a rule.
Supported(t) ==
    LET e == IF t \in SliceTypes THEN Elem(t) ELSE t IN
    setValue(e, <<>>).err # "unsupported type"

\* C4: a bound leaf of a supported type that is not required, has no
\* default tag and is absent from the source holds its pre-call value once
\* Load is over, and Load does not return the coercion error of that leaf.
C4_AbsentLeafKeepsValue ==
    pc = "done" =>
        \A p \in LeafSet :
            Bound(p) /\ Supported(TypeOf(p)) /\ ~IsRequired(p)
              /\ ~FieldAt(decl, p).hasDefault /\ ~InSource(p) =>
                /\ fields[p] = precall[p]
                /\ ~(result.kind = "error" /\ idx <= Len(vars)
                       /\ vars[idx].structField = p)

\* C5: a leaf that is not required, carries a default tag and is absent
\* from the source holds, once the loop has passed it, the coercion of the
\* string of the default tag, whatever its pre-call value was; a call that
\* ends without a coercion failure has passed every such leaf.
C5_DefaultTagWins ==
    \A p \in LeafSet :
        Bound(p) /\ ~IsRequired(p) /\ HasDefault(p) /\ ~InSource(p) =>
            /\ Contains(sets, p) =>
                  /\ CoercionOf(TypeOf(p), FieldAt(decl, p).default).ok
                  /\ fields[p] = CoercionOf(TypeOf(p), FieldAt(decl, p).default).val
            /\ Completed => Contains(sets, p)

\* A leaf set by the caller that a completed call overwrote with its default.
C5_Witness ==
    /\ pc = "done" /\ result.kind = "nil"
    /\ \E p \in LeafSet :
          /\ ~IsRequired(p) /\ HasDefault(p) /\ ~InSource(p)
          /\ precall[p] # Zero(TypeOf(p))
          /\ fields[p] # precall[p]
          /\ fields[p] = CoercionOf(TypeOf(p), FieldAt(decl, p).default).val

---------------------------------------------------------------------------
(* Rejected calls.                                                         *)

\* C6: Load called with nil, a non-pointer, a pointer to a non-struct or a
\* nil struct pointer returns the invalid-argument error and does not panic,
\* with no source lookup and no field assignment.
C6_InvalidArgumentReturned ==
    pc = "done" /\ ~structPtr(cfg) =>
        /\ result.kind = "ErrInvalidArgument"
        /\ lookups = <<>>
        /\ sets = <<>>

\* The first flag of a leaf that is neither `required` nor `expand`.
FirstUnknownFlag(p) ==
    LET bad == {k \in DOMAIN Flags(p) : Flags(p)[k] \notin {REQUIRED, EXPAND}} IN
    Flags(p)[CHOOSE k \in bad : \A j \in bad : k <= j]

C8_RequiredWithDefaultRejected ==
    pc = "done" /\ (\E p \in LeafSet : IsRequired(p) /\ HasDefault(p)) =>
        /\ result.kind = "panic"
        /\ result.err = "env: `required` and `default` can't be used simultaneously"
        /\ lookups = <<>>
        /\ sets = <<>>

\* C9: whenever the struct holds a bound leaf whose type has no coercion
\* rule, Load (when no tag is rejected and no leaf of a supported type fails
\* its coercion) returns the unsupported-type error that names the type.
C9_UnsupportedTypeReported ==
    pc = "done" /\ result.kind # "panic"
      /\ (\A q \in LeafSet : Supported(TypeOf(q)) => ~CoercionFails(q))
      /\ (\E p \in LeafSet : Bound(p) /\ ~Supported(TypeOf(p))) =>
        /\ result.kind = "error"
        /\ result.err = "unsupported type"
        /\ \E p \in LeafSet : ~Supported(TypeOf(p)) /\ result.type = TypeOf(p)

---------------------------------------------------------------------------
(* Expansion, stated by the decomposition of the string into literals and  *)
(* tokens rather than by the scan of os.Expand.                            *)

NoDollar(s) == \A k \in DOMAIN s : s[k] # "$"

\* What the source returns for a name, the empty string when it is absent.
ValueOf(name) ==
    LET r == LookupEnv(variant, source, name) IN IF r.ok THEN r.value ELSE <<>>

IsName(s) == s # <<>> /\ ~IsDigit(s[1]) /\ \A k \in DOMAIN s : isAlphaNum(s[k])

\* s[i..j] is a token $NAME, NAME being as long as it can be.
BareToken(s, i, j) ==
    /\ s[i] = "$" /\ j > i /\ IsName(SubSeq(s, i + 1, j))
    /\ j = Len(s) \/ ~isAlphaNum(s[j + 1])

\* s[i..j] is a token ${NAME}.
BracedToken(s, i, j) ==
    /\ j >= i + 3 /\ s[i] = "$" /\ s[i + 1] = "{" /\ s[j] = "}"
    /\ IsName(SubSeq(s, i + 2, j - 1))

TokenName(s, i, j) ==
    IF s[i + 1] = "{" THEN SubSeq(s, i + 2, j - 1) ELSE SubSeq(s, i + 1, j)

FirstDollar(s) == CHOOSE i \in DOMAIN s : s[i] = "$" /\ \A k \in 1..(i - 1) : s[k] # "$"

TokenEnds(s) ==
    {j \in DOMAIN s : BareToken(s, FirstDollar(s), j) \/ BracedToken(s, FirstDollar(s), j)}

\* s is made of literals without `$` and of tokens.
RECURSIVE WellTokenized(_)
WellTokenized(s) ==
    \/ NoDollar(s)
    \/ /\ ~NoDollar(s)
       /\ TokenEnds(s) # {}
       /\ WellTokenized(SubSeq(s, (CHOOSE j \in TokenEnds(s) : TRUE) + 1, Len(s)))

\* s with every token replaced by the value of its name.
RECURSIVE Interpolated(_)
Interpolated(s) ==
    IF NoDollar(s) THEN s
    ELSE LET i == FirstDollar(s)
             j == CHOOSE j \in TokenEnds(s) : TRUE
         IN  SubSeq(s, 1, i - 1) \o ValueOf(TokenName(s, i, j))
                \o Interpolated(SubSeq(s, j + 1, Len(s)))

RawString(p) == LookupEnv(variant, source, EffectiveName(p)).value

\* C10: a string leaf with the `expand` flag that is found in the source
\* holds, once the loop has passed it, the found string with every $NAME and
\* ${NAME} token replaced by what the same source returns for NAME, the
\* empty string when NAME is absent; a string leaf without the flag holds
\* the found string; and a call that ends without a coercion failure has
\* passed the leaf.
C10_ExpandReplacesTokens ==
    \A p \in LeafSet :
        TypeOf(p) = "string" /\ InSource(p) =>
            /\ Contains(sets, p) /\ HasExpand(p) /\ WellTokenized(RawString(p)) =>
                  fields[p] = Interpolated(RawString(p))
            /\ Contains(sets, p) /\ ~HasExpand(p) => fields[p] = RawString(p)
            /\ Completed => Contains(sets, p)

\* An expanded leaf: ${B}x with B bound to 1 became 1x.
C10_Witness ==
    /\ pc = "done" /\ result.kind = "nil"
    /\ \E p \in LeafSet :
          /\ HasExpand(p) /\ InSource(p)
          /\ RawString(p) = <<"$", "{", "B", "}", "x">>
          /\ fields[p] = <<"1", "x">>


---------------------------------------------------------------------------
(* The names of the leaves of nested structs.                              *)

\* The declarations of the nested structs that hold the leaf at p, the
\* outermost first.
EnclosingStructs(p) == [i \in 1..(Len(p) - 1) |-> FieldAt(decl, SubSeq(p, 1, i))]

DeclaredName(p) == TagParts(p)[1]

\* The bound leaves in depth-first declaration order.
BoundLeaves == SelectSeq(Leaves, Bound)

\* The names asked of the source during a call without `expand` are the
\* names given, one for every bound leaf.
Queried(names) == lookups = names

\* The names of a NotSetError are those of the names given, one for every
\* bound leaf, that belong to a required leaf and that the source lacks.
Reported(names) ==
    LET ks == SelectSeq([k \in DOMAIN BoundLeaves |-> k],
                        LAMBDA k : /\ IsRequired(BoundLeaves[k])
                                   /\ ~LookupEnv(variant, source, names[k]).ok)
    IN  IF ks = <<>> THEN result.kind = "nil"
        ELSE /\ result.kind = "NotSetError"
             /\ result.names = [i \in DOMAIN ks |-> names[ks[i]]]

\* The declared name after, for every enclosing struct with an `env` tag,
\* the value of the tag and the separator.
JoinedName(p, sep) ==
    LET e == EnclosingStructs(p) IN
    Join([i \in DOMAIN e |-> IF e[i].hasEnv THEN e[i].env \o sep ELSE <<>>], <<>>)
    \o DeclaredName(p)

PrefixedName(p, sep) ==
    LET e == EnclosingStructs(p) IN
    Join([i \in DOMAIN e |-> IF e[i].hasEnv /\ e[i].env # <<>> THEN e[i].env \o sep ELSE <<>>],
         <<>>)
    \o DeclaredName(p)

\* C12, as stated: in the generations with a NameSep, a nested struct
\* without an `env` tag, or with an empty one, adds neither a prefix nor a
\* separator to the names of its leaves, whatever the separator.
C12_UntaggedStructAddsNothing ==
    (variant \in WithNameSep /\ Completed) =>
        LET names == [k \in DOMAIN BoundLeaves |->
                        PrefixedName(BoundLeaves[k], opts.nameSep)]
        IN  Queried(names) /\ Reported(names)

\* C13, as stated: in the NameSep generation, when no NameSep is given the
\* names under a nested struct with a prefix are joined with an underscore.
C13_DefaultNameSepIsUnderscore ==
    (variant = "NameSep" /\ Completed /\ opts.nameSep = <<>>
       /\ \A p \in LeafSet : \A i \in DOMAIN EnclosingStructs(p) :
              EnclosingStructs(p)[i].hasEnv /\ EnclosingStructs(p)[i].env # <<>>) =>
        LET names == [k \in DOMAIN BoundLeaves |->
                        PrefixedName(BoundLeaves[k], <<"_">>)]
        IN  Queried(names) /\ Reported(names)

---------------------------------------------------------------------------
(* Composite sources.                                                      *)

\* The indexes of the sources s1..sn, in the order they were given, that
\* hold a key.
Holders(key) == {i \in DOMAIN source : key \in DOMAIN source[i]}

\* The string of the source of highest index that holds the key.
HighestValue(key) ==
    LET h == Holders(key) IN
    source[CHOOSE i \in h : \A j \in h : j <= i][key]

\* C14: whichever way the sources s1..sn are composed (MultiSource in the
\* generations with Options, MultiProvider in LoadFrom, WithSource in the
\* loader), once the call is over every bound top-level leaf was found iff
\* some si holds its name: if none does the leaf keeps its value and, when
\* required, is reported; if one does the leaf holds the coercion of the
\* string of the si of highest index that holds the name, so that two
\* leaves bound to the same name hold the same value.
C14_CompositeLastSourceWins ==
    Completed =>
        \A p \in LeafSet : (Len(p) = 1 /\ Bound(p)) =>
            IF Holders(EffectiveName(p)) = {}
            THEN /\ fields[p] = precall[p]
                 /\ IsRequired(p) => Contains(result.names, EffectiveName(p))
            ELSE /\ fields[p] = CoercionOf(TypeOf(p), HighestValue(EffectiveName(p))).val
                 /\ ~Contains(result.names, EffectiveName(p))

\* Of three sources the first holds A=1, the second A=2 and the third
\* nothing: both leaves bound to A hold 2.
C14_Witness ==
    /\ Completed
    /\ Len(source) = 3
    /\ Holders(<<"A">>) = {1, 2}
    /\ source[1][<<"A">>] = <<"1">> /\ source[2][<<"A">>] = <<"2">>
    /\ Len(decl) = 2 /\ Bound(<<1>>) /\ Bound(<<2>>)
    /\ precall[<<1>>] = 7 /\ fields[<<1>>] = 2 /\ fields[<<2>>] = 2
    /\ Len(lookups) = 2

---------------------------------------------------------------------------
(* Fields that are not bound.                                              *)

\* A leaf that is unexported or has no `env` tag.
Unbound(p) == ~FieldAt(decl, p).exported \/ ~FieldAt(decl, p).hasEnv

\* No bound leaf is missing while required, and none gets a string that its
\* type rejects.
BoundLeavesLoad ==
    \A q \in LeafSet : Bound(q) => ~MissingLeaf(q) /\ ~CoercionFails(q)

\* C19: a leaf that is unexported or has no `env` tag holds its pre-call
\* value in every state of the call and is never assigned, and when the
\* bound leaves load the call returns nil: the field causes no failure,
\* whatever its type and its tag, even when the source holds its name.
C19_UnboundFieldsIgnored ==
    \A p \in LeafSet : Unbound(p) =>
        /\ fields[p] = precall[p]
        /\ ~Contains(sets, p)
        /\ (pc = "done" /\ BoundLeavesLoad) => result.kind = "nil"

\* An unexported complex64 tagged A,required and a source with A and B: the
\* call returns nil after it has set the leaf bound to B.
C19_Witness ==
    /\ pc = "done" /\ result.kind = "nil"
    /\ <<"A">> \in DOMAIN source[1]
    /\ \E p \in LeafSet :
        /\ ~FieldAt(decl, p).exported /\ FieldAt(decl, p).hasEnv
        /\ TypeOf(p) = "complex64" /\ Contains(Flags(p), REQUIRED)
        /\ fields[p] = precall[p]
    /\ \E q \in LeafSet : Bound(q) /\ precall[q] = 7 /\ fields[q] = 1

---------------------------------------------------------------------------
(* Coercions.                                                              *)

\* The string the source holds for the leaf at p.
SourceText(p) == LookupEnv(variant, source, EffectiveName(p)).value

\* The call has ended on the leaf at p, with nil or with an error.
Coerced(p) == pc = "done" /\ Bound(p) /\ InSource(p) /\ ~HasExpand(p)

IntegerTypes == {"int8", "int16", "uint8", "uint16"}

IsSigned(t) == t \in {"int8", "int16"}

Width(t) == IF t \in {"int8", "uint8"} THEN 8 ELSE 16

RECURSIVE TwoTo(_)
TwoTo(n) == IF n = 0 THEN 1 ELSE 2 * TwoTo(n - 1)

\* A base-10 numeral: digits, after a sign for a signed type only.
IsNumeral(t, s) ==
    LET body == IF IsSigned(t) /\ s # <<>> /\ s[1] \in {"+", "-"} THEN Tail(s) ELSE s
    IN  body # <<>> /\ \A k \in DOMAIN body : IsDigit(body[k])

\* The integer a numeral denotes.
NumeralValue(s) ==
    IF s[1] = "-" THEN -DigitsVal(Tail(s))
    ELSE IF s[1] = "+" THEN DigitsVal(Tail(s))
    ELSE DigitsVal(s)

InRange(t, n) ==
    IF IsSigned(t) THEN -TwoTo(Width(t) - 1) <= n /\ n <= TwoTo(Width(t) - 1) - 1
    ELSE 0 <= n /\ n <= TwoTo(Width(t)) - 1

\* C16: a leaf of a signed or unsigned integer type of width w whose name
\* is in the source: when the string is a base-10 numeral (digits, after
\* an optional sign for a signed type) of an integer in the range of the
\* width, the call returns nil and the field equals that integer; otherwise
\* the call returns a parsing error and the field holds its pre-call value.
C16_IntegerInRangeOrUnchanged ==
    \A p \in LeafSet : (Coerced(p) /\ TypeOf(p) \in IntegerTypes) =>
        IF IsNumeral(TypeOf(p), SourceText(p))
           /\ InRange(TypeOf(p), NumeralValue(SourceText(p)))
        THEN result.kind = "nil" /\ fields[p] = NumeralValue(SourceText(p))
        ELSE /\ result.kind = "error"
             /\ result.err = (IF IsSigned(TypeOf(p)) THEN "parsing int" ELSE "parsing uint")
             /\ fields[p] = precall[p]

\* 200 for an int8 fails and leaves the 7 of the field; 200 for an int16 is
\* stored.
C16_Witness ==
    \E p \in LeafSet :
        /\ Coerced(p) /\ SourceText(p) = <<"2", "0", "0">> /\ precall[p] = 7
        /\ \/ TypeOf(p) = "int8" /\ result.kind = "error" /\ fields[p] = 7
           \/ TypeOf(p) = "int16" /\ result.kind = "nil" /\ fields[p] = 200

\* The separator of slices: the one the caller gave, else a space.
SliceSeparator == IF opts.sliceSep = <<>> THEN " " ELSE opts.sliceSep[1]

\* The positions of a character in a string.
Positions(s, c) == {i \in DOMAIN s : s[i] = c}

\* The k-th of the positions at, counted from 1.
Nth(at, k) == CHOOSE i \in at : Cardinality({j \in at : j < i}) = k - 1

\* The k-th piece of s between the occurrences of c.
Piece(s, c, k) ==
    LET at == Positions(s, c)
        from == IF k = 1 THEN 1 ELSE Nth(at, k - 1) + 1
        to == IF k = Cardinality(at) + 1 THEN Len(s) ELSE Nth(at, k) - 1
    IN  SubSeq(s, from, to)

\* The slices of scalars: their own type has no UnmarshalText.
ScalarSlices == {"[]int8", "[]string", "[]net.IP", "[]time.Duration"}

\* C15: a leaf that is a slice of scalars whose name is in the source: the
\* string is cut at every occurrence of the separator given by the caller,
\* a space when none is given, and every piece is coerced by the rule of
\* the element type; when all the pieces are accepted the field is the
\* slice of their values, as many as the pieces and in their order, and
\* otherwise the call returns the error and the field is unchanged.
C15_SliceSplitOnSeparator ==
    \A p \in LeafSet : (Coerced(p) /\ TypeOf(p) \in ScalarSlices) =>
        LET n == Cardinality(Positions(SourceText(p), SliceSeparator)) + 1
            rs == [k \in 1..n |->
                     setValue(Elem(TypeOf(p)), Piece(SourceText(p), SliceSeparator, k))]
        IN  IF \A k \in 1..n : rs[k].ok
            THEN /\ result.kind = "nil"
                 /\ Len(fields[p]) = n
                 /\ \A k \in 1..n : fields[p][k] = rs[k].val
            ELSE result.kind = "error" /\ fields[p] = precall[p]

\* With the separator ; the string 1;2;3 gives the three int8 1, 2, 3.
C15_Witness ==
    \E p \in LeafSet :
        /\ Coerced(p) /\ TypeOf(p) = "[]int8"
        /\ result.kind = "nil" /\ fields[p] = <<1, 2, 3>> /\ precall[p] = <<7>>
        /\ SliceSeparator = ";" /\ SourceText(p) = <<"1", ";", "2", ";", "3">>

\* The outcome of the call on the leaf at p is the outcome r of a parser:
\* nil and the value in the field, or an error and the field unchanged.
Outcome(p, r) ==
    IF r.ok THEN result.kind = "nil" /\ fields[p] = r.val
    ELSE result.kind = "error" /\ result.err = r.err /\ fields[p] = precall[p]

\* C17: a leaf whose own type has an UnmarshalText method is one variable,
\* and the whole string of the source goes to that method: a time.Time, of
\* struct kind, is not walked as a nested struct, and a net.IP, of slice
\* kind, is not cut at the separator.  A []net.IP, whose own type has no
\* such method, is cut at the separator and every piece goes to the
\* UnmarshalText of net.IP.
C17_UnmarshalerIsOneLeaf ==
    \A p \in LeafSet :
        /\ (pc # "idle" /\ Bound(p) /\ TypeOf(p) \in {"net.IP", "time.Time"}) =>
              Cardinality({k \in DOMAIN vars : vars[k].structField = p}) = 1
        /\ (Coerced(p) /\ TypeOf(p) = "net.IP") =>
              Outcome(p, UnmarshalText(SourceText(p)))
        /\ (Coerced(p) /\ TypeOf(p) = "time.Time") =>
              Outcome(p, Time_UnmarshalText(SourceText(p)))
        /\ (Coerced(p) /\ TypeOf(p) = "[]net.IP") =>
              LET n == Cardinality(Positions(SourceText(p), SliceSeparator)) + 1
                  rs == [k \in 1..n |->
                           UnmarshalText(Piece(SourceText(p), SliceSeparator, k))]
              IN  IF \A k \in 1..n : rs[k].ok
                  THEN result.kind = "nil" /\ fields[p] = [k \in 1..n |-> rs[k].val]
                  ELSE result.kind = "error" /\ fields[p] = precall[p]

\* A net.IP leaf gets the address 1.2.3.4 from the string 1.2.3.4, with
\* the separator of slices at its default.
C17_Witness ==
    \E p \in LeafSet :
        /\ Coerced(p) /\ TypeOf(p) = "net.IP"
        /\ SourceText(p) = <<"1", ".", "2", ".", "3", ".", "4">>
        /\ result.kind = "nil" /\ fields[p] = <<1, 2, 3, 4>> /\ precall[p] = <<9, 9, 9, 9>>

\* The parser of the first rule that matches a type, in the order
\* time.Duration, TextUnmarshaler, signed, unsigned, float, bool, string.
FirstRule(t, s) ==
    CASE t = "time.Duration" -> ParseDuration(s)
      [] t = "net.IP" -> UnmarshalText(s)
      [] t = "slog.Level" -> Level_UnmarshalText(s)
      [] t = "time.Time" -> Time_UnmarshalText(s)
      [] t \in {"int8", "int16"} -> ParseInt(s, Width(t))
      [] t \in {"uint8", "uint16"} -> ParseUint(s, Width(t))
      [] t = "float64" -> ParseFloat(s)
      [] t = "bool" -> ParseBool(s)
      [] OTHER -> Ok(s)

\* C18: the outcome of the call on a scalar leaf whose name is in the source
\* is the outcome of the first rule that matches its type, in the order
\* time.Duration, TextUnmarshaler, signed integer, unsigned integer, float,
\* bool, string: a time.Duration goes through the grammar of durations and
\* never through the parser of int64, and a slog.Level, a named int with an
\* UnmarshalText method, goes through that method.
C18_FirstMatchingRule ==
    \A p \in LeafSet : (Coerced(p) /\ TypeOf(p) \in CoercedTypes \ SliceTypes) =>
        Outcome(p, FirstRule(TypeOf(p), SourceText(p)))

\* The string 5 is refused for a time.Duration, for want of a unit, and
\* the field keeps its 7.
C18_Witness ==
    \E p \in LeafSet :
        /\ Coerced(p) /\ TypeOf(p) = "time.Duration" /\ SourceText(p) = <<"5">>
        /\ result.kind = "error" /\ result.err = "parsing duration"
        /\ precall[p] = 7 /\ fields[p] = 7


---------------------------------------------------------------------------
(* What a failed call leaves behind.                                       *)

\* The leaf whose coercion fails first in the traversal.
FirstFailing(f) ==
    CoercionFails(f) /\ \A q \in LeafSet : Position(q) < Position(f) => ~CoercionFails(q)

\* The keys the source is asked for on behalf of a leaf: its own name and,
\* for a found value that is expanded, the names of its tokens.
KeysOf(p) ==
    IF ~Bound(p) THEN {}
    ELSE {EffectiveName(p)} \cup
         (IF HasExpand(p) /\ InSource(p)
          THEN LET ns == ExpandNames(LookupEnv(variant, source, EffectiveName(p)).value, 1)
               IN  {ns[k] : k \in DOMAIN ns}
          ELSE {})

\* C25: when Load returns a coercion error, it is that of the first leaf f
\* whose coercion fails; every leaf before f for which a string was resolved
\* holds the coercion of that string (nothing is rolled back), and no leaf
\* after f was assigned or modified, nor was the source asked for its name
\* on its behalf (only a leaf up to f may have asked for that name).
C25_NoRollbackNoLookahead ==
    pc = "done" /\ result.kind = "error" =>
        \E f \in LeafSet :
            /\ FirstFailing(f)
            /\ \A q \in LeafSet :
                  /\ Position(q) < Position(f) /\ Attempt(q).ok =>
                        /\ fields[q] = CoercionOf(TypeOf(q), Attempt(q).value).val
                        /\ Contains(sets, q)
                  /\ Position(q) > Position(f) =>
                        /\ fields[q] = precall[q]
                        /\ ~Contains(sets, q)
                        /\ \A n \in KeysOf(q) :
                              Contains(lookups, n) =>
                                  \E e \in LeafSet : Position(e) <= Position(f) /\ n \in KeysOf(e)

\* A coercion error at the second leaf, after the first leaf was found in
\* the source and assigned a value other than the one it held.
C25_Witness ==
    /\ pc = "done" /\ result.kind = "error"
    /\ \E f, q \in LeafSet :
          /\ FirstFailing(f) /\ Position(f) = 2 /\ Position(q) = 1
          /\ InSource(q) /\ Contains(sets, q) /\ fields[q] # precall[q]

---------------------------------------------------------------------------
(* Interpolation and defaults.                                             *)

\* The names of the tokens of a string that the source holds.
ResolvableTokens(s) ==
    LET ns == ExpandNames(s, 1) IN
    {n \in {ns[k] : k \in DOMAIN ns} : LookupEnv(variant, source, n).ok}

\* C28: a leaf with the `expand` flag that is not required, carries a
\* default tag and is absent from the source is assigned, when it is
\* assigned, the coercion of the default string exactly as the tag gives it,
\* tokens included; a call that completes has assigned it, and the source
\* was asked for the name of the leaf but for no token of the default on its
\* behalf.
C28_DefaultNotInterpolated ==
    \A p \in LeafSet :
        HasExpand(p) /\ ~IsRequired(p) /\ HasDefault(p) /\ ~InSource(p) =>
            /\ Contains(sets, p) =>
                  /\ fields[p] = CoercionOf(TypeOf(p), FieldAt(decl, p).default).val
                  /\ \A n \in ResolvableTokens(FieldAt(decl, p).default) :
                        Contains(lookups, n) =>
                            \E e \in LeafSet : e # p /\ n \in KeysOf(e)
            /\ Completed => Contains(sets, p)

\* An absent `expand` string leaf whose default $B was stored verbatim by a
\* completed call, while the source holds a value for B.
C28_Witness ==
    /\ pc = "done" /\ result.kind = "nil"
    /\ \E p \in LeafSet :
          /\ HasExpand(p) /\ HasDefault(p) /\ ~InSource(p)
          /\ ResolvableTokens(FieldAt(decl, p).default) # {}
          /\ TypeOf(p) = "string"
          /\ fields[p] = FieldAt(decl, p).default
          /\ fields[p] # Expand(FieldAt(decl, p).default, 1, variant, source)

---------------------------------------------------------------------------
(* Slices are assigned whole.                                              *)

\* The pieces of the string of the source for the slice leaf at p.
Pieces(p) ==
    [k \in 1..(Cardinality(Positions(SourceText(p), SliceSeparator)) + 1) |->
        Piece(SourceText(p), SliceSeparator, k)]

\* The pieces that the rule of the element type rejects.
Rejected(p) ==
    {k \in DOMAIN Pieces(p) : ~setValue(Elem(TypeOf(p)), Pieces(p)[k]).ok}

\* C26: the assignment of a slice leaf found in the source is all or
\* nothing.  When some piece is rejected, also after pieces that were
\* accepted, the call returns an error, the field was never assigned and
\* holds its pre-call contents; when no piece is rejected the field is
\* assigned once and is a new slice with as many elements as there are
\* pieces: the pre-call elements are gone, not extended.
C26_SliceAllOrNothing ==
    \A p \in LeafSet : (Coerced(p) /\ TypeOf(p) \in ScalarSlices) =>
        IF Rejected(p) # {}
        THEN /\ result.kind = "error"
             /\ sets = <<>>
             /\ fields[p] = precall[p]
        ELSE /\ result.kind = "nil"
             /\ sets = <<p>>
             /\ Len(fields[p]) = Len(Pieces(p))
             /\ fields[p] =
                   [k \in DOMAIN Pieces(p) |-> setValue(Elem(TypeOf(p)), Pieces(p)[k]).val]

\* The string "1 200" for a []int8 that held one element: the first piece
\* is accepted, the second is out of range, and the field still holds the
\* one element.
C26_Witness ==
    \E p \in LeafSet :
        /\ Coerced(p) /\ TypeOf(p) = "[]int8"
        /\ SourceText(p) = <<"1", " ", "2", "0", "0">> /\ SliceSeparator = " "
        /\ Rejected(p) = {2}
        /\ precall[p] = <<7>> /\ fields[p] = <<7>>
        /\ result.kind = "error"

---------------------------------------------------------------------------
(* A variable set to the empty string.                                     *)

\* The leaf at p is bound to a name that the source holds with the empty
\* string as its value.
SetToEmpty(p) ==
    /\ Bound(p)
    /\ \E k \in DOMAIN source : EffectiveName(p) \in DOMAIN source[k]
    /\ \A k \in DOMAIN source :
          EffectiveName(p) \in DOMAIN source[k] => source[k][EffectiveName(p)] = <<>>

\* C27: a leaf whose variable is in the source with the empty string as its
\* value is found.  Once a call on a struct with this one leaf is over
\* without a panic, the name of the leaf is in no NotSetError, also when the leaf is required; a string leaf
\* is empty, whatever its default tag and the value it held; a numeric, bool
\* or duration leaf made the call return the coercion error of the empty
\* string and holds its pre-call value, not the default.
C27_EmptyValueIsFound ==
    \A p \in LeafSet :
        (pc = "done" /\ result.kind # "panic" /\ SetToEmpty(p)) =>
            /\ ~Contains(result.names, EffectiveName(p))
            /\ result.kind # "NotSetError"
            /\ TypeOf(p) = "string" =>
                  result.kind = "nil" /\ fields[p] = <<>> /\ sets = <<p>>
            /\ TypeOf(p) \in EmptyTypes \ {"string"} =>
                  /\ result.kind = "error"
                  /\ result.err = setValue(TypeOf(p), <<>>).err
                  /\ fields[p] = precall[p] /\ sets = <<>>

\* A required numeric leaf that held 7 and whose variable is set to the
\* empty string: the call returns the coercion error, no NotSetError.
C27_Witness ==
    \E p \in LeafSet :
        /\ pc = "done" /\ SetToEmpty(p) /\ IsRequired(p)
        /\ TypeOf(p) = "int8" /\ precall[p] = 7
        /\ result.kind = "error" /\ result.names = <<>>
        /\ fields[p] = 7

\* A string leaf with the default tag d that held p and whose variable is
\* set to the empty string: the field is empty.
C27_WitnessString ==
    \E p \in LeafSet :
        /\ pc = "done" /\ SetToEmpty(p) /\ FieldAt(decl, p).hasDefault
        /\ TypeOf(p) = "string" /\ precall[p] = <<"p">>
        /\ result.kind = "nil" /\ fields[p] = <<>>

---------------------------------------------------------------------------
(* Printing a value and coercing the result.                               *)

\* C24: for a leaf of scalar kind (signed and unsigned integers of 8 and 16
\* bits, float64, bool, string, time.Duration), the coercion of the string
\* that %v prints for a value of the type succeeds and stores that value.
\* When the source holds the printed form of a value, the field holds the
\* value once the call is over; when the source holds nothing, the loader
\* generation coerces the default that parseVars printed from the field and
\* the field holds what it held before the call.
C24_FormatThenCoerce ==
    \A p \in LeafSet : (pc = "done" /\ Bound(p) /\ TypeOf(p) \in ScalarKinds) =>
        /\ InSource(p) =>
              \A v \in RoundTripValues(TypeOf(p)) :
                  SourceText(p) = Sprintf(TypeOf(p), v) =>
                      /\ result.kind = "nil"
                      /\ sets = <<p>>
                      /\ fields[p] = v
        /\ ~InSource(p) =>
              /\ result.kind = "nil"
              /\ fields[p] = precall[p]
              /\ variant = "loader" =>
                    /\ sets = <<p>>
                    /\ vars[1].Default = Sprintf(TypeOf(p), precall[p])
                    /\ setValue(TypeOf(p), vars[1].Default) = Ok(precall[p])

\* A duration of 1.5s that the loader generation printed as the default of
\* the leaf and assigned back from that string.
C24_Witness ==
    \E p \in LeafSet :
        /\ pc = "done" /\ variant = "loader" /\ ~InSource(p)
        /\ TypeOf(p) = "time.Duration" /\ precall[p] = 1500000000
        /\ vars[1].Default = <<"1", ".", "5", "s">>
        /\ sets = <<p>> /\ fields[p] = 1500000000

\* The printed form -32768 of an int16 found in the source and stored.
C24_WitnessFound ==
    \E p \in LeafSet :
        /\ pc = "done" /\ InSource(p) /\ TypeOf(p) = "int16"
        /\ SourceText(p) = <<"-", "3", "2", "7", "6", "8">>
        /\ fields[p] = -32768 /\ precall[p] = 7

---------------------------------------------------------------------------
(* Interpolation under a prefix.                                           *)

\* The names of the tokens of a string made of literals and tokens, in order.
RECURSIVE TokenNames(_)
TokenNames(s) ==
    IF NoDollar(s) THEN <<>>
    ELSE LET i == FirstDollar(s)
             j == CHOOSE j \in TokenEnds(s) : TRUE
         IN  <<TokenName(s, i, j)>> \o TokenNames(SubSeq(s, j + 1, Len(s)))

\* C29: the variable of a leaf is looked up under the prefix followed by the
\* name of its tag, and under no other name (a leaf that the source holds
\* under its bare name only keeps its value); when the string found is
\* expanded, the source is then asked for the names of its tokens exactly as
\* they are written, without the prefix, and the field holds the string with
\* every token replaced by what the source holds under that bare name.
C29_TokensNotPrefixed ==
    \A p \in LeafSet : (pc = "done" /\ Bound(p) /\ TypeOf(p) = "string") =>
        /\ lookups # <<>> /\ lookups[1] = opts.prefix \o DeclaredName(p)
        /\ (opts.prefix \o DeclaredName(p)) \notin UNION {DOMAIN source[k] : k \in DOMAIN source}
              => lookups = <<opts.prefix \o DeclaredName(p)>> /\ fields[p] = precall[p]
        /\ InSource(p) /\ HasExpand(p) /\ WellTokenized(RawString(p)) =>
              /\ Tail(lookups) = TokenNames(RawString(p))
              /\ result.kind = "nil"
              /\ fields[p] = Interpolated(RawString(p))

\* Under the prefix P the leaf A is read from PA, and its value $B becomes
\* the 1 of B, not the 2 of PB.
C29_Witness ==
    \E p \in LeafSet :
        /\ pc = "done" /\ variant = "loader" /\ opts.prefix = <<"P">>
        /\ HasExpand(p)
        /\ source = <<[k \in {<<"P", "A">>, <<"B">>, <<"P", "B">>} |->
                          IF k = <<"P", "A">> THEN <<"$", "B">>
                          ELSE IF k = <<"B">> THEN <<"1">> ELSE <<"2">>]>>
        /\ lookups = <<<<"P", "A">>, <<"B">>>>
        /\ fields[p] = <<"1">>

---------------------------------------------------------------------------
(* The usage message on an error.                                          *)

\* A result that is a non-nil error returned by Load.
IsError(r) == r.kind \in {"error", "NotSetError"}

\* The calls that returned a non-nil error, the one that has just ended
\* included.
ErrorsReturned ==
    Cardinality({k \in DOMAIN history : IsError(history[k].result)})
        + (IF pc = "done" /\ IsError(result) THEN 1 ELSE 0)

\* C22: in the loader generation with WithUsageOnError(w), at every moment
\* the messages written to w are as many as the calls of Load that have
\* returned a coercion error or a NotSetError: a call that returns an error
\* writes the usage message once, when it returns, and a call that returns
\* nil (or panics) writes nothing.  The message has one row for every
\* variable of the struct.  Without the option nothing is ever written.
C22_UsageWrittenOnceOnError ==
    variant = "loader" =>
        /\ ~usageOutput => written = <<>>
        /\ usageOutput =>
              /\ Len(written) = ErrorsReturned
              /\ pc = "done" /\ IsError(result) =>
                    /\ Len(written[Len(written)]) = Len(BoundLeaves)
                    /\ \A k \in DOMAIN BoundLeaves :
                          written[Len(written)][k].Name = EffectiveName(BoundLeaves[k])

\* Two calls that each returned a coercion error: two messages, one from
\* each call.
C22_Witness ==
    /\ variant = "loader" /\ usageOutput
    /\ pc = "done" /\ result.kind = "error"
    /\ Len(history) = 1 /\ history[1].result.kind = "error"
    /\ Len(written) = 2

\* A call that returned nil with a writer configured: nothing was written.
C22_WitnessNil ==
    /\ variant = "loader" /\ usageOutput
    /\ pc = "done" /\ result.kind = "nil" /\ sets # <<>>
    /\ written = <<>>

\* A call that returned a NotSetError and wrote the message once.
C22_WitnessNotSet ==
    /\ variant = "loader" /\ usageOutput
    /\ pc = "done" /\ result.kind = "NotSetError" /\ history = <<>>
    /\ Len(written) = 1 /\ written[1][1].Required

---------------------------------------------------------------------------
(* The defaults that Usage reports.                                        *)

\* The value the leaf at p held before the first call of Load.
BeforeFirstLoad(p) == IF history # <<>> THEN history[1].pre[p] ELSE precall[p]

\* What a usage message shows as the default of a value of a type.
ShownDefault(t, v) ==
    IF t = "string" /\ v = <<>> THEN <<"<", "e", "m", "p", "t", "y", ">">>
    ELSE Sprintf(t, v)

\* C21: in the generations that keep the cache, every usage message written
\* for the struct, before or after any number of calls of Load, shows for
\* every variable that is not required and has no default tag the printed
\* value that the field held before the first call of Load.
C21_UsageReportsFirstDefaults ==
    variant \in {"Options", "NameSep"} =>
        \A m \in DOMAIN written : \A k \in DOMAIN written[m] :
            LET p == BoundLeaves[k] IN
            ~IsRequired(p) /\ ~HasDefault(p) =>
                written[m][k].Default = ShownDefault(TypeOf(p), BeforeFirstLoad(p))

\* The same after exactly one call of Load, which holds.
C21_AfterOneLoad ==
    variant \in {"Options", "NameSep"} /\ history = <<>> =>
        \A m \in DOMAIN written : \A k \in DOMAIN written[m] :
            LET p == BoundLeaves[k] IN
            ~IsRequired(p) /\ ~HasDefault(p) =>
                written[m][k].Default = ShownDefault(TypeOf(p), BeforeFirstLoad(p))

\* A usage message written after one call of Load changed the field: it
\* shows the value from before the call.
C21_WitnessOneLoad ==
    /\ variant = "Options" /\ history = <<>> /\ pc = "done" /\ written # <<>>
    /\ \E p \in LeafSet :
          /\ ~IsRequired(p) /\ ~HasDefault(p) /\ Contains(sets, p)
          /\ fields[p] # precall[p]
          /\ written[1][Position(p)].Default = Sprintf(TypeOf(p), precall[p])

---------------------------------------------------------------------------
(* Load called twice.                                                      *)

\* The call before the one that has just ended.
Previous == history[Len(history)]

C30_WitnessNil ==
    /\ pc = "done" /\ variant = "Options" /\ Len(history) = 1
    /\ \E p \in LeafSet : TypeOf(p) = "[]string" /\ Previous.pre[p] # Previous.post[p]
                          /\ Contains(sets, p)
    /\ Previous.result.kind = "nil"
    /\ fields = Previous.post /\ result = Previous.result

---------------------------------------------------------------------------
(* Concurrent calls and the cache.                                         *)

\* C23: goroutines that call Load and Usage on different instances of the
\* same struct type never access the cache at the same time as a write to
\* it: in no state is one call writing the map while another call is
\* writing or reading it.
C23_CacheAccessSynchronized ==
    \A i, j \in DOMAIN procs :
        i # j /\ procs[i].pc = "writing" => procs[j].pc \notin {"writing", "reading"}

\* Two calls of Load that write the map at the same time.
C23_TwoWriters ==
    \E i, j \in DOMAIN procs :
        /\ i # j /\ procs[i].op = "Load" /\ procs[j].op = "Load"
        /\ procs[i].pc = "writing" /\ procs[j].pc = "writing"

\* A call of Usage on an instance that holds 0 and was never loaded wrote
\* the default 7 of the instance of a call of Load whose write it overlapped.
C23_UsageSeesOtherInstance ==
    \E i, j \in DOMAIN procs :
        /\ procs[i].op = "Usage" /\ procs[i].pc = "done" /\ procs[i].value = 0
        /\ procs[j].op = "Load" /\ procs[j].pc = "writing" /\ ~cache.has
        /\ written # <<>> /\ written[1][1].Default = <<"7">>
=============================================================================
